---------------------------- MODULE Spec2Model ----------------------------
(***************************************************************************)
(* A model of the pdf2mp3 pipeline: the page grouper of process_pdf.py,    *)
(* the text normalizer and the quality filter of split_pdf.py and the      *)
(* paragraph segmenter of reformat_text.py.                                *)
(*                                                                         *)
(* Strings are sequences of one-character strings, so that the regular     *)
(* expressions and the conversions of the code (int(), str(), zfill(),     *)
(* strip(), split()) are computed character by character.                  *)
(***************************************************************************)
EXTENDS Integers, Sequences, FiniteSets, TLC

VARIABLES
    pc,            \* position of the program that is running
    text_dir,      \* process_pdf: the entries of the text directory, in listing order
    group_size,    \* process_pdf: --group
    skip,          \* process_pdf: --skip
    groups,        \* process_pdf: the groups returned by group_text_files
    pad,           \* process_pdf: the padding width returned by group_text_files
    out_files,     \* process_pdf: first/last labels of the MP3 names main has built
    raw_text,      \* split_pdf: the text handed to clean_pdf_text
    cleaned,       \* split_pdf: clean_pdf_text(raw_text)
    recleaned,     \* split_pdf: clean_pdf_text(cleaned)
    prev_line,     \* reformat_text: should_start_new_paragraph's prev_line
    curr_line,     \* reformat_text: should_start_new_paragraph's curr_line
    starts_new,    \* reformat_text: what should_start_new_paragraph returned
    lines,         \* reformat_text: the lines handed to clean_text
    i,             \* reformat_text: clean_text's index of the next line
    buffer,        \* reformat_text: clean_text's buffer
    paragraphs,    \* reformat_text: clean_text's paragraphs
    disable_line_length_filter,  \* split_pdf: the keyword given to TextQualityFilter(...)
    line_lengths,  \* split_pdf: TextQualityFilter.line_lengths
    blocks_recorded,  \* split_pdf: how many add calls have appended to line_lengths
    verdict,       \* split_pdf: the last is_valid call: its text and what it returned
    candidates,    \* split_pdf: the candidates handed to deduplicate
    accepted,      \* split_pdf: deduplicate's accepted
    cand_idx,      \* split_pdf: how many candidates deduplicate's loop has taken
    image,         \* layout_analysis: height and width of the page image
    detected,      \* layout_analysis: the regions model.detect(image) returned
    unique_blocks, \* layout_analysis: analyze_image's unique_blocks
    text_layout,   \* layout_analysis: the layout analyze_image returned
    sorted_blocks, \* layout_analysis: get_text_image_regions' sorted_blocks
    cropped_images, \* layout_analysis: the crop boxes get_text_image_regions returned
    mode,          \* split_pdf: extract_sentences_from_pdf's path: text, ocr or dry_run
    auto_layout,   \* split_pdf: --auto-layout
    start_page,    \* split_pdf: --start-page
    pdf,           \* split_pdf: per page, what the extractor or the OCR of its blocks gives
    page_i,        \* split_pdf: the page loop's index i (0-based)
    all_pages_text, \* split_pdf: all_pages_text / all_dry_run_text
    page_files,    \* split_pdf: the page_N.txt files written, as [page, text]
    full_text_file, \* split_pdf: full_text.txt, when written
    page_log,      \* split_pdf: per page taken, the blocks kept and the skip message printed
    OCR_AVAILABLE, \* split_pdf: whether pypdfium2, pytesseract and PIL were imported
    LAYOUT_AVAILABLE, \* split_pdf: whether layout_analysis was imported
    output_dir_made, \* split_pdf: whether output_path.mkdir(...) has run
    terminated,    \* split_pdf: the sys.exit call made, with the message printed before it
    audio_groups,  \* process_pdf: per page group handed to generate_audio.py, its number of files
    g_idx,         \* process_pdf: how many groups the loop "for g in groups" has completed
    t_idx,         \* generate_audio: how many files the loop over the input files has taken
    generated_mp3s, \* generate_audio: generated_mp3s of the running process
    exit_codes,    \* generate_audio: the exit code of each run so far
    failures       \* the synthesis, transcoding and concatenation steps that have failed

gvars == <<text_dir, group_size, skip, groups, pad, out_files>>
nvars == <<raw_text, cleaned, recleaned>>
rvars == <<prev_line, curr_line, starts_new, lines, i, buffer, paragraphs>>
fvars == <<disable_line_length_filter, line_lengths, blocks_recorded, verdict>>
\* dvars, lvars, evars, avars: deduplicate, layout_analysis,
\* extract_sentences_from_pdf, generate_audio under process_pdf
dvars == <<candidates, accepted, cand_idx>>
\* the state of the programs modelled first, and of those modelled after them
basevars == <<gvars, nvars, rvars, fvars>>
lvars == <<image, detected, unique_blocks, text_layout, sorted_blocks, cropped_images>>
evars == <<mode, auto_layout, start_page, pdf, page_i, all_pages_text, page_files,
          full_text_file, page_log, OCR_AVAILABLE, LAYOUT_AVAILABLE, output_dir_made,
          terminated>>
avars == <<audio_groups, g_idx, t_idx, generated_mp3s, exit_codes, failures>>
ovars == <<dvars, lvars, evars, avars>>
vars == <<pc, gvars, nvars, rvars, fvars, ovars>>

(***************************************************************************)
(* Each specification below runs one program of the repository; the state  *)
(* of the others stays as it is before they start.                         *)
(***************************************************************************)
IdleGroup ==
    /\ text_dir = <<>>
    /\ group_size = 1
    /\ skip = 0
    /\ groups = <<>>
    /\ pad = 0
    /\ out_files = <<>>

IdleNormalizer ==
    /\ raw_text = <<>>
    /\ cleaned = <<>>
    /\ recleaned = <<>>

IdleShouldStart ==
    /\ prev_line = <<>>
    /\ curr_line = <<>>
    /\ starts_new = FALSE

IdleCleanText ==
    /\ lines = <<>>
    /\ i = 0
    /\ buffer = <<>>
    /\ paragraphs = <<>>

IdleSegmenter == IdleShouldStart /\ IdleCleanText

NoVerdict == [text |-> <<>>, valid |-> FALSE, reason |-> "none"]

IdleFilter ==
    /\ disable_line_length_filter = "omitted"
    /\ line_lengths = <<>>
    /\ blocks_recorded = 0
    /\ verdict = NoVerdict

IdleDeduplicate ==
    /\ candidates = <<>>
    /\ accepted = <<>>
    /\ cand_idx = 0

IdleAnalyze ==
    /\ detected = <<>>
    /\ unique_blocks = <<>>

IdleRegions ==
    /\ sorted_blocks = <<>>
    /\ cropped_images = <<>>

IdleLayout ==
    /\ image = [h |-> 0, w |-> 0]
    /\ text_layout = <<>>
    /\ IdleAnalyze
    /\ IdleRegions

NotWritten == [written |-> FALSE, text |-> <<>>]

NotTerminated == [exited |-> FALSE, status |-> 0, message |-> ""]

IdleExtract ==
    /\ OCR_AVAILABLE = TRUE
    /\ LAYOUT_AVAILABLE = TRUE
    /\ output_dir_made = FALSE
    /\ terminated = NotTerminated
    /\ mode = "text"
    /\ auto_layout = FALSE
    /\ start_page = 0
    /\ pdf = <<>>
    /\ page_i = 0
    /\ all_pages_text = <<>>
    /\ page_files = <<>>
    /\ full_text_file = NotWritten
    /\ page_log = <<>>

IdleAudio ==
    /\ audio_groups = <<>>
    /\ g_idx = 0
    /\ t_idx = 0
    /\ generated_mp3s = <<>>
    /\ exit_codes = <<>>
    /\ failures = {}

IdleBase == IdleGroup /\ IdleNormalizer /\ IdleSegmenter /\ IdleFilter

IdleOthers == IdleDeduplicate /\ IdleLayout /\ IdleExtract /\ IdleAudio

(***************************************************************************)
(* Bounds of the model.                                                    *)
(***************************************************************************)
MaxFiles == 4
MaxGroupSize == 2
MaxSkip == 2
MaxTokens == 5
MaxLineTokens == 3
MaxLines == 3
MaxSamples == 7
MaxCandidates == 3
MaxRegions == 3
MaxPages == 3
MaxLongPages == 7
MaxAudioGroups == 2
MaxAudioFiles == 2

(***************************************************************************)
(* Characters and generic sequence helpers.                                *)
(***************************************************************************)
Digits == {"0", "1", "2", "3", "4", "5", "6", "7", "8", "9"}
Upper == {"A", "B", "C", "D", "E", "F", "G", "H", "I", "J", "K", "L", "M",
          "N", "O", "P", "Q", "R", "S", "T", "U", "V", "W", "X", "Y", "Z"}
Lower == {"a", "b", "c", "d", "e", "f", "g", "h", "i", "j", "k", "l", "m",
          "n", "o", "p", "q", "r", "s", "t", "u", "v", "w", "x", "y", "z"}
\* \w of the regular expressions
WordChars == Upper \cup Lower \cup Digits \cup {"_"}
\* \s of the regular expressions, and what str.strip() and str.split() take
\* for whitespace
Whitespace == {" ", "\n", "\t"}
\* the character U+2022, which a TLA+ string cannot hold
Bullet == "bullet"

DigitValue(c) ==
    CASE c = "0" -> 0 [] c = "1" -> 1 [] c = "2" -> 2 [] c = "3" -> 3
      [] c = "4" -> 4 [] c = "5" -> 5 [] c = "6" -> 6 [] c = "7" -> 7
      [] c = "8" -> 8 [] c = "9" -> 9

DigitChar(d) ==
    CASE d = 0 -> "0" [] d = 1 -> "1" [] d = 2 -> "2" [] d = 3 -> "3"
      [] d = 4 -> "4" [] d = 5 -> "5" [] d = 6 -> "6" [] d = 7 -> "7"
      [] d = 8 -> "8" [] d = 9 -> "9"

Min(a, b) == IF a <= b THEN a ELSE b
Max(a, b) == IF a >= b THEN a ELSE b

\* s[from:] of Python, 0-based slice start (from >= 0)
DropFirst(s, n) == SubSeq(s, n + 1, Len(s))

RECURSIVE Flatten(_)
Flatten(ss) == IF ss = <<>> THEN <<>> ELSE Head(ss) \o Flatten(Tail(ss))

RECURSIVE Repeat(_, _)
Repeat(c, n) == IF n <= 0 THEN <<>> ELSE <<c>> \o Repeat(c, n - 1)

AllDigits(s) == \A k \in 1..Len(s) : s[k] \in Digits

EndsWith(s, suffix) ==
    /\ Len(s) >= Len(suffix)
    /\ SubSeq(s, Len(s) - Len(suffix) + 1, Len(s)) = suffix

(***************************************************************************)
(* int(), str() and str.zfill() of Python.                                 *)
(***************************************************************************)
RECURSIVE IntOfDigits(_)
IntOfDigits(s) ==
    IF s = <<>> THEN 0
    ELSE 10 * IntOfDigits(SubSeq(s, 1, Len(s) - 1)) + DigitValue(s[Len(s)])

RECURSIVE StrNat(_)
StrNat(n) == IF n < 10 THEN <<DigitChar(n)>> ELSE StrNat(n \div 10) \o <<DigitChar(n % 10)>>

StrInt(n) == IF n < 0 THEN <<"-">> \o StrNat(-n) ELSE StrNat(n)

zfill(s, width) ==
    IF Len(s) >= width THEN s
    ELSE IF s # <<>> /\ s[1] \in {"+", "-"}
         THEN <<s[1]>> \o Repeat("0", width - Len(s)) \o Tail(s)
         ELSE Repeat("0", width - Len(s)) \o s

(***************************************************************************)
(* split_pdf.py: clean_pdf_text.                                           *)
(***************************************************************************)
\* the last position of the longest \w run that starts at k (k - 1 without one)
RECURSIVE WordRunEnd(_, _)
WordRunEnd(s, k) ==
    IF k <= Len(s) /\ s[k] \in WordChars THEN WordRunEnd(s, k + 1) ELSE k - 1

\* re.sub(r'(\w+)-\n(\w+)', r'\1\2', s) from position k on: the leftmost
\* match is replaced and the scan goes on after the end of that match
RECURSIVE JoinHyphenBreaksFrom(_, _)
JoinHyphenBreaksFrom(s, k) ==
    IF k > Len(s) THEN <<>>
    ELSE LET e == WordRunEnd(s, k)
             f == WordRunEnd(s, e + 3)
         IN  IF /\ e >= k
                /\ e + 2 <= Len(s)
                /\ s[e + 1] = "-"
                /\ s[e + 2] = "\n"
                /\ f >= e + 3
             THEN SubSeq(s, k, e) \o SubSeq(s, e + 3, f) \o JoinHyphenBreaksFrom(s, f + 1)
             ELSE <<s[k]>> \o JoinHyphenBreaksFrom(s, k + 1)

JoinHyphenBreaks(s) == JoinHyphenBreaksFrom(s, 1)

\* slip: the lookbehind of the pattern is left out
SoftWrapsToSpaces_NoLookbehind(s) ==
    [k \in 1..Len(s) |->
        IF s[k] = "\n" /\ (k = Len(s) \/ s[k + 1] # "\n") THEN " " ELSE s[k]]

\* re.sub(r'(?<!\n)\n(?!\n)', ' ', s)
SoftWrapsToSpaces(s) ==
    [k \in 1..Len(s) |->
        IF /\ s[k] = "\n"
           /\ (k = 1 \/ s[k - 1] # "\n")
           /\ (k = Len(s) \/ s[k + 1] # "\n")
        THEN " " ELSE s[k]]

\* re.sub(r'\n{2,}', '\n\n', s) on the first k characters of s
RECURSIVE CollapseNewlinesUpTo(_, _)
CollapseNewlinesUpTo(s, k) ==
    IF k = 0 THEN <<>>
    ELSE IF s[k] = "\n" /\ k >= 3 /\ s[k - 1] = "\n" /\ s[k - 2] = "\n"
         THEN CollapseNewlinesUpTo(s, k - 1)
         ELSE Append(CollapseNewlinesUpTo(s, k - 1), s[k])

CollapseNewlines(s) == CollapseNewlinesUpTo(s, Len(s))

\* re.sub(r' +', ' ', s) on the first k characters of s
RECURSIVE CollapseSpacesUpTo(_, _)
CollapseSpacesUpTo(s, k) ==
    IF k = 0 THEN <<>>
    ELSE IF s[k] = " " /\ k >= 2 /\ s[k - 1] = " "
         THEN CollapseSpacesUpTo(s, k - 1)
         ELSE Append(CollapseSpacesUpTo(s, k - 1), s[k])

CollapseSpaces(s) == CollapseSpacesUpTo(s, Len(s))

\* re.sub(r'\bword\b', repl, s) from position k on, for a word of \w characters
RECURSIVE ReplaceWholeWordFrom(_, _, _, _)
ReplaceWholeWordFrom(s, k, word, repl) ==
    IF k > Len(s) THEN <<>>
    ELSE IF /\ k + Len(word) - 1 <= Len(s)
            /\ SubSeq(s, k, k + Len(word) - 1) = word
            /\ (k = 1 \/ s[k - 1] \notin WordChars)
            /\ (k + Len(word) > Len(s) \/ s[k + Len(word)] \notin WordChars)
         THEN repl \o ReplaceWholeWordFrom(s, k + Len(word), word, repl)
         ELSE <<s[k]>> \o ReplaceWholeWordFrom(s, k + 1, word, repl)

ReplaceWholeWord(s, word, repl) == ReplaceWholeWordFrom(s, 1, word, repl)

FixOcrConfusions(s) ==
    ReplaceWholeWord(
        ReplaceWholeWord(
            ReplaceWholeWord(s, <<"A", "l">>, <<"A", "I">>),
            <<"O", "p", "e", "n", "A", "l">>, <<"O", "p", "e", "n", "A", "I">>),
        <<"E", "l">>, <<"A", "I">>)

\* str.strip()
RECURSIVE lstrip(_)
lstrip(s) == IF s # <<>> /\ s[1] \in Whitespace THEN lstrip(Tail(s)) ELSE s
RECURSIVE rstrip(_)
rstrip(s) ==
    IF s # <<>> /\ s[Len(s)] \in Whitespace THEN rstrip(SubSeq(s, 1, Len(s) - 1)) ELSE s
\* slip: only the leading whitespace is removed
strip_LeadingOnly(s) == lstrip(s)

strip(s) == rstrip(lstrip(s))

\* slip: the spaces are collapsed before the soft wraps become spaces
clean_pdf_text_SpacesFirst(raw) ==
    strip(FixOcrConfusions(
        CollapseNewlines(SoftWrapsToSpaces(CollapseSpaces(JoinHyphenBreaks(raw))))))

clean_pdf_text(raw) ==
    strip(FixOcrConfusions(
        CollapseSpaces(CollapseNewlines(SoftWrapsToSpaces(JoinHyphenBreaks(raw))))))

\* the pieces the texts of the model are made of
TextTokens ==
    { <<"a">>, <<"-">>, <<"-", "\n">>, <<"\n">>, <<" ">>,
      <<"A", "l">>, <<"E", "l">>, <<"O", "p", "e", "n", "A", "l">> }

RawTexts ==
    { Flatten(ts) : ts \in UNION { [1..n -> TextTokens] : n \in 0..MaxTokens } }

InitNormalizer ==
    /\ pc = "raw"
    /\ raw_text \in RawTexts
    /\ cleaned = <<>>
    /\ recleaned = <<>>
    /\ IdleGroup
    /\ IdleSegmenter
    /\ IdleFilter
    /\ IdleOthers

\* extract_sentences_from_pdf: cleaned_text = clean_pdf_text(text)
CleanPdfText ==
    /\ pc = "raw"
    /\ cleaned' = clean_pdf_text(raw_text)
    /\ pc' = "cleaned"
    /\ UNCHANGED <<raw_text, recleaned, gvars, rvars, fvars, ovars>>

\* clean_pdf_text applied to its own result
CleanCleanedText ==
    /\ pc = "cleaned"
    /\ recleaned' = clean_pdf_text(cleaned)
    /\ pc' = "recleaned"
    /\ UNCHANGED <<raw_text, cleaned, gvars, rvars, fvars, ovars>>

NextNormalizer == CleanPdfText \/ CleanCleanedText

SpecNormalizer == InitNormalizer /\ [][NextNormalizer]_vars

(***************************************************************************)
(* reformat_text.py: should_start_new_paragraph and clean_text.            *)
(***************************************************************************)
\* the first position at or after k that holds no whitespace (Len(s) + 1 without one)
RECURSIVE SkipWhitespace(_, _)
SkipWhitespace(s, k) ==
    IF k <= Len(s) /\ s[k] \in Whitespace THEN SkipWhitespace(s, k + 1) ELSE k

\* the first position at or after k that holds whitespace (Len(s) + 1 without one)
RECURSIVE SkipToken(_, _)
SkipToken(s, k) ==
    IF k <= Len(s) /\ s[k] \notin Whitespace THEN SkipToken(s, k + 1) ELSE k

RECURSIVE SkipDigits(_, _)
SkipDigits(s, k) ==
    IF k <= Len(s) /\ s[k] \in Digits THEN SkipDigits(s, k + 1) ELSE k

\* str.split() of the characters from position k on
RECURSIVE SplitFrom(_, _)
SplitFrom(s, k) ==
    LET a == SkipWhitespace(s, k)
        b == SkipToken(s, a)
    IN  IF a > Len(s) THEN <<>> ELSE <<SubSeq(s, a, b - 1)>> \o SplitFrom(s, b)

split(s) == SplitFrom(s, 1)

\* slip: only the numbered markers are taken for list items
LIST_ITEM_RE_NumberedOnly(line) ==
    LET m == SkipWhitespace(line, 1)
        d == SkipDigits(line, m)
    IN  /\ d > m
        /\ d + 1 <= Len(line)
        /\ line[d] \in {".", ")"}
        /\ line[d + 1] \in Whitespace

\* LIST_ITEM_RE.match(line): ^\s*(\d+[\.\)]|[bullet\-])\s+
LIST_ITEM_RE(line) ==
    LET m == SkipWhitespace(line, 1)
        d == SkipDigits(line, m)
        afterMarker ==
            IF m > Len(line) THEN 0
            ELSE IF d > m
                 THEN IF d <= Len(line) /\ line[d] \in {".", ")"} THEN d + 1 ELSE 0
                 ELSE IF line[m] \in {Bullet, "-"} THEN m + 1 ELSE 0
    IN  /\ afterMarker # 0
        /\ afterMarker <= Len(line)
        /\ line[afterMarker] \in Whitespace

\* HEADLINE_RE.match(line): ^[A-Z0-9\s\-:,]+$
HEADLINE_RE(line) ==
    /\ line # <<>>
    /\ \A k \in 1..Len(line) :
          line[k] \in Upper \cup Digits \cup Whitespace \cup {"-", ":", ","}

CONTINUATION_WORDS ==
    { <<"A", "n", "d">>, <<"B", "u", "t">>, <<"S", "o">>,
      <<"B", "e", "c", "a", "u", "s", "e">>, <<"A", "t">>, <<"A", "s">>,
      <<"Y", "e", "t">>, <<"T", "h", "o", "u", "g", "h">>,
      <<"W", "h", "i", "l", "e">>, <<"W", "h", "e", "n">>, <<"I", "f">> }

EndsWithAny(s, chars) == s # <<>> /\ s[Len(s)] \in chars

\* slip: the continuation words are compared without regard to case
should_start_new_paragraph_AnyCase(prev, curr) ==
    LET upperOf(w) == [k \in 1..Len(w) |->
                          IF w[k] = "n" THEN "N" ELSE IF w[k] = "d" THEN "D" ELSE w[k]]
    IN  IF prev = <<>> THEN TRUE
        ELSE IF LIST_ITEM_RE(curr) THEN TRUE
        ELSE IF HEADLINE_RE(strip(curr)) /\ Len(split(strip(curr))) >= 2 THEN TRUE
        ELSE IF EndsWithAny(prev, {".", "?", "!", ":"})
             THEN LET first_word == IF strip(curr) # <<>> THEN split(strip(curr))[1] ELSE <<>>
                  IN  /\ first_word # <<>>
                      /\ \A w \in CONTINUATION_WORDS : upperOf(w) # upperOf(first_word)
             ELSE FALSE

should_start_new_paragraph(prev, curr) ==
    IF prev = <<>> THEN TRUE
    ELSE IF LIST_ITEM_RE(curr) THEN TRUE
    ELSE IF HEADLINE_RE(strip(curr)) /\ Len(split(strip(curr))) >= 2 THEN TRUE
    ELSE IF EndsWithAny(prev, {".", "?", "!", ":"})
         THEN LET first_word == IF strip(curr) # <<>> THEN split(strip(curr))[1] ELSE <<>>
              IN  first_word # <<>> /\ first_word \notin CONTINUATION_WORDS
         ELSE FALSE

\* slip: the heading test is left out of the decision
StartsParagraph_NoHeading(buf, line) ==
    /\ line # <<>>
    /\ ~EndsWithAny(buf, {"-"})
    /\ \/ buf = <<>>
       \/ LIST_ITEM_RE(line)
       \/ /\ EndsWithAny(buf, {".", "?", "!", ":"})
          /\ split(line)[1] \notin CONTINUATION_WORDS

\* clean_text's decision for a trimmed line against the buffer: whether the
\* line becomes the start of a paragraph (neither joined by the hyphenation
\* repair, nor blank, nor appended after a space)
StartsParagraph(buf, line) ==
    /\ line # <<>>
    /\ ~EndsWithAny(buf, {"-"})
    /\ (buf = <<>> \/ should_start_new_paragraph(buf, line))

\* the pieces the lines handed to should_start_new_paragraph are made of
LineTokens ==
    { <<"A", "n", "d">>, <<"A", "N", "D">>, <<"d">>, <<"1">>, <<".">>, <<"-">>, <<" ">> }

CurrLines ==
    { Flatten(ts) : ts \in UNION { [1..n -> LineTokens] : n \in 0..MaxLineTokens } }

PrevLines ==
    { <<>>, <<"d">>, <<"d", ".">>, <<"d", "?">>, <<"d", "!">>, <<"d", ":">>,
      <<"d", "-">>, <<"d", ".", " ">>, <<"d", ",">> }

\* the lines handed to clean_text: blank, plain, sentence end, hyphen end, list
\* items, bare list markers, continuation, non-continuation, heading, padded
CleanLines ==
    { <<>>,
      <<" ">>,
      <<"d">>,
      <<"d", ".">>,
      <<"d", "-">>,
      <<"1", ".", " ", "d">>,
      <<"-", " ", "d">>,
      <<"1", ".", " ">>,
      <<"-", " ">>,
      <<"A", "n", "d", " ", "d">>,
      <<"A", "N", "D", " ", "d">>,
      <<"A", "N", "D", " ", "A", "N", "D">>,
      <<" ", "d", " ">> }

InitShouldStart ==
    /\ pc = "call"
    /\ prev_line \in PrevLines
    /\ curr_line \in CurrLines
    /\ starts_new = FALSE
    /\ IdleCleanText

InitCleanText ==
    /\ pc = "clean"
    /\ lines \in UNION { [1..n -> CleanLines] : n \in 0..MaxLines }
    /\ i = 0
    /\ buffer = <<>>
    /\ paragraphs = <<>>
    /\ IdleShouldStart

InitSegmenter ==
    /\ InitShouldStart \/ InitCleanText
    /\ IdleGroup
    /\ IdleNormalizer
    /\ IdleFilter
    /\ IdleOthers

\* a call of should_start_new_paragraph(prev_line, curr_line)
ShouldStartNewParagraph ==
    /\ pc = "call"
    /\ starts_new' = should_start_new_paragraph(prev_line, curr_line)
    /\ pc' = "answered"
    /\ UNCHANGED <<prev_line, curr_line, lines, i, buffer, paragraphs, gvars, nvars, fvars, ovars>>

\* clean_text: one iteration of "while i < len(lines)"
CleanTextLine ==
    /\ pc = "clean"
    /\ i < Len(lines)
    /\ LET line == strip(lines[i + 1])
       IN  IF EndsWithAny(buffer, {"-"}) /\ line # <<>>
           THEN /\ buffer' = SubSeq(buffer, 1, Len(buffer) - 1) \o line
                /\ paragraphs' = paragraphs
           ELSE IF line = <<>>
           THEN IF buffer # <<>>
                THEN /\ paragraphs' = Append(paragraphs, strip(buffer))
                     /\ buffer' = <<>>
                ELSE UNCHANGED <<buffer, paragraphs>>
           ELSE IF buffer # <<>> /\ should_start_new_paragraph(buffer, line)
           THEN /\ paragraphs' = Append(paragraphs, strip(buffer))
                /\ buffer' = line
           ELSE /\ buffer' = IF buffer # <<>> THEN buffer \o <<" ">> \o line ELSE line
                /\ paragraphs' = paragraphs
    /\ i' = i + 1
    /\ UNCHANGED <<pc, lines, prev_line, curr_line, starts_new, gvars, nvars, fvars, ovars>>

\* clean_text: the flush after the loop and the return
CleanTextReturn ==
    /\ pc = "clean"
    /\ i = Len(lines)
    /\ paragraphs' = IF buffer # <<>> THEN Append(paragraphs, strip(buffer)) ELSE paragraphs
    /\ pc' = "returned"
    /\ UNCHANGED <<lines, i, buffer, prev_line, curr_line, starts_new, gvars, nvars, fvars, ovars>>

NextSegmenter == ShouldStartNewParagraph \/ CleanTextLine \/ CleanTextReturn

SpecSegmenter == InitSegmenter /\ [][NextSegmenter]_vars

(***************************************************************************)
(* split_pdf.py: TextQualityFilter.                                        *)
(***************************************************************************)
\* [a-zA-Z0-9]
Alphanumeric == Upper \cup Lower \cup Digits

\* text.split('\n') of the characters from position k on
RECURSIVE SplitLinesFrom(_, _)
SplitLinesFrom(s, k) ==
    LET ends == { e \in k..Len(s) : s[e] = "\n" }
    IN  IF ends = {} THEN <<SubSeq(s, k, Len(s))>>
        ELSE LET e == CHOOSE x \in ends : \A y \in ends : x <= y
             IN  <<SubSeq(s, k, e - 1)>> \o SplitLinesFrom(s, e + 1)

\* [l for l in text.split('\n') if l.strip()]
NonBlankLines(text) == SelectSeq(SplitLinesFrom(text, 1), LAMBDA l : strip(l) # <<>>)

RECURSIVE SumOf(_)
SumOf(ns) == IF ns = <<>> THEN 0 ELSE Head(ns) + SumOf(Tail(ns))

LineLengthsOf(text) == [k \in 1..Len(NonBlankLines(text)) |-> Len(NonBlankLines(text)[k])]

\* the comparison with >= in place of >
ExceedsMeanPlusTwoStd_AtOrAbove(block_lengths, recorded) ==
    LET B == SumOf(block_lengths)
        m == Len(block_lengths)
        n == Len(recorded)
        S == SumOf(recorded)
        Q == SumOf([k \in 1..n |-> recorded[k] * recorded[k]])
        lhs == B * n - S * m
    IN  IF n = 0 THEN B >= 0
        ELSE lhs >= 0 /\ lhs * lhs >= 4 * m * m * (n * Q - S * S)

\* block_avg_len > mean + 2 * std, for block_avg_len = B / m over the m lines
\* of the block and the mean and the population standard deviation of the
\* n recorded lengths (_get_stats): with S their sum and Q the sum of their
\* squares, std = sqrt(n * Q - S * S) / n, so the comparison is
\* B * n - S * m > 2 * m * sqrt(n * Q - S * S).
ExceedsMeanPlusTwoStd(block_lengths, recorded) ==
    LET B == SumOf(block_lengths)
        m == Len(block_lengths)
        n == Len(recorded)
        S == SumOf(recorded)
        Q == SumOf([k \in 1..n |-> recorded[k] * recorded[k]])
        lhs == B * n - S * m
    IN  IF n = 0 THEN B > 0
        ELSE lhs > 0 /\ lhs * lhs > 4 * m * m * (n * Q - S * S)

\* is_valid enforcing the line-length check from 5 recorded lengths on
is_valid_EnforcedFromFive(recorded, text) ==
    LET clean == SelectSeq(text, LAMBDA c : c \notin Whitespace)
        alpha_count == Len(SelectSeq(clean, LAMBDA c : c \in Alphanumeric))
        block == LineLengthsOf(text)
    IN  IF strip(text) = <<>> THEN [valid |-> FALSE, reason |-> "Empty text"]
        ELSE IF clean = <<>> THEN [valid |-> FALSE, reason |-> "Whitespace only"]
        ELSE IF 2 * alpha_count < Len(clean)
             THEN [valid |-> FALSE, reason |-> "Low alphanumeric density"]
        ELSE IF block = <<>> THEN [valid |-> FALSE, reason |-> "No valid lines"]
        ELSE IF Len(recorded) > 4 /\ ExceedsMeanPlusTwoStd(block, recorded)
             THEN [valid |-> FALSE, reason |-> "Line length outlier"]
        ELSE [valid |-> TRUE, reason |-> "OK"]

\* is_valid rejecting a ratio of exactly one half as well
is_valid_HalfRejected(recorded, text) ==
    LET clean == SelectSeq(text, LAMBDA c : c \notin Whitespace)
        alpha_count == Len(SelectSeq(clean, LAMBDA c : c \in Alphanumeric))
        block == LineLengthsOf(text)
    IN  IF strip(text) = <<>> THEN [valid |-> FALSE, reason |-> "Empty text"]
        ELSE IF clean = <<>> THEN [valid |-> FALSE, reason |-> "Whitespace only"]
        ELSE IF 2 * alpha_count <= Len(clean)
             THEN [valid |-> FALSE, reason |-> "Low alphanumeric density"]
        ELSE IF block = <<>> THEN [valid |-> FALSE, reason |-> "No valid lines"]
        ELSE IF Len(recorded) > 5 /\ ExceedsMeanPlusTwoStd(block, recorded)
             THEN [valid |-> FALSE, reason |-> "Line length outlier"]
        ELSE [valid |-> TRUE, reason |-> "OK"]

\* is_valid; the reason is given without the numbers formatted into it
is_valid(recorded, text) ==
    LET clean == SelectSeq(text, LAMBDA c : c \notin Whitespace)
        alpha_count == Len(SelectSeq(clean, LAMBDA c : c \in Alphanumeric))
        block == LineLengthsOf(text)
    IN  IF strip(text) = <<>> THEN [valid |-> FALSE, reason |-> "Empty text"]
        ELSE IF clean = <<>> THEN [valid |-> FALSE, reason |-> "Whitespace only"]
        ELSE IF 2 * alpha_count < Len(clean)
             THEN [valid |-> FALSE, reason |-> "Low alphanumeric density"]
        ELSE IF block = <<>> THEN [valid |-> FALSE, reason |-> "No valid lines"]
        ELSE IF Len(recorded) > 5 /\ ExceedsMeanPlusTwoStd(block, recorded)
             THEN [valid |-> FALSE, reason |-> "Line length outlier"]
        ELSE [valid |-> TRUE, reason |-> "OK"]

\* the text blocks handed to the filter: empty, blank, one line of 1, 2 and 3
\* characters, two lines, a line with a space, and blocks whose share of
\* alphanumeric characters is 0, 1/2 and 1/3
Blocks ==
    { <<>>,
      <<" ">>,
      <<"a">>,
      <<"a", "a">>,
      <<"a", "a", "a">>,
      <<"a", "\n", "a", "a", "a", "\n">>,
      <<"a", " ", "a">>,
      <<".", ".">>,
      <<"a", ".">>,
      <<"a", ".", ".">> }

InitFilter ==
    /\ pc = "new"
    /\ disable_line_length_filter \in {"omitted", "True"}
    /\ line_lengths = <<>>
    /\ blocks_recorded = 0
    /\ verdict = NoVerdict
    /\ IdleGroup
    /\ IdleNormalizer
    /\ IdleSegmenter
    /\ IdleOthers

\* TextQualityFilter(...): __init__(self) takes no argument besides self, so a
\* call with the keyword disable_line_length_filter raises TypeError and
\* yields no filter
NewTextQualityFilter ==
    /\ pc = "new"
    /\ IF disable_line_length_filter = "omitted"
       THEN /\ pc' = "filter"
            /\ line_lengths' = <<>>
       ELSE /\ pc' = "TypeError"
            /\ UNCHANGED line_lengths
    /\ UNCHANGED <<disable_line_length_filter, blocks_recorded, verdict, gvars, nvars, rvars, ovars>>

\* quality_filter.is_valid(text)
IsValid ==
    /\ pc = "filter"
    /\ \E text \in Blocks :
          verdict' = [text |-> text,
                      valid |-> is_valid(line_lengths, text).valid,
                      reason |-> is_valid(line_lengths, text).reason]
    /\ UNCHANGED <<pc, disable_line_length_filter, line_lengths, blocks_recorded, gvars, nvars, rvars, ovars>>

\* quality_filter.add(text)
Add ==
    /\ pc = "filter"
    /\ \E text \in Blocks :
          /\ Len(line_lengths) + Len(LineLengthsOf(text)) <= MaxSamples
          /\ line_lengths' = line_lengths \o LineLengthsOf(text)
          /\ blocks_recorded' = IF LineLengthsOf(text) = <<>> THEN blocks_recorded
                                ELSE blocks_recorded + 1
    /\ UNCHANGED <<pc, disable_line_length_filter, verdict, gvars, nvars, rvars, ovars>>

NextFilter == NewTextQualityFilter \/ IsValid \/ Add

SpecFilter == InitFilter /\ [][NextFilter]_vars

(***************************************************************************)
(* split_pdf.py: TextQualityFilter.deduplicate.                            *)
(***************************************************************************)
\* str.lower() of one character
LowerChar(c) ==
    CASE c = "A" -> "a" [] c = "B" -> "b" [] c = "C" -> "c" [] c = "D" ->
         "d" [] c = "E" -> "e" [] c = "F" -> "f" [] c = "G" -> "g" [] c =
         "H" -> "h" [] c = "I" -> "i" [] c = "J" -> "j" [] c = "K" -> "k"
         [] c = "L" -> "l" [] c = "M" -> "m" [] c = "N" -> "n" [] c = "O"
         -> "o" [] c = "P" -> "p" [] c = "Q" -> "q" [] c = "R" -> "r" [] c
         = "S" -> "s" [] c = "T" -> "t" [] c = "U" -> "u" [] c = "V" -> "v"
         [] c = "W" -> "w" [] c = "X" -> "x" [] c = "Y" -> "y" [] c = "Z"
         -> "z"
      [] OTHER -> c

lower(s) == [k \in 1..Len(s) |-> LowerChar(s[k])]

\* " ".join(words)
RECURSIVE JoinWithSpace(_)
JoinWithSpace(words) ==
    IF words = <<>> THEN <<>>
    ELSE IF Len(words) = 1 THEN words[1]
    ELSE words[1] \o <<" ">> \o JoinWithSpace(Tail(words))

\* " ".join(text.split()).lower()
Normalized(text) == lower(JoinWithSpace(split(text)))

\* sub in s, of two strings
IsIn(sub, s) ==
    \E k \in 0..(Len(s) - Len(sub)) : SubSeq(s, k + 1, k + Len(sub)) = sub

\* slip: an accepted block found inside the current one is kept as it is
DeduplicateOne_NeverReplaces(acc, cand) ==
    LET c_norm == Normalized(cand.text)
        hits == { k \in 1..Len(acc) :
                    \/ IsIn(c_norm, Normalized(acc[k].text))
                    \/ IsIn(Normalized(acc[k].text), c_norm) }
    IN  IF c_norm = <<>> THEN acc
        ELSE IF hits = {} THEN Append(acc, cand)
        ELSE acc

\* slip: the test "if not c_norm: continue" is left out
DeduplicateOne_BlankKept(acc, cand) ==
    LET c_norm == Normalized(cand.text)
        hits == { k \in 1..Len(acc) :
                    \/ IsIn(c_norm, Normalized(acc[k].text))
                    \/ IsIn(Normalized(acc[k].text), c_norm) }
    IN  IF hits = {} THEN Append(acc, cand)
        ELSE LET first == CHOOSE k \in hits : \A h \in hits : k <= h
             IN  IF IsIn(c_norm, Normalized(acc[first].text)) THEN acc
                 ELSE [acc EXCEPT ![first] = cand]

\* one turn of deduplicate's loop "for cand in candidates": the accepted list
\* after it. The inner loop stops at the first accepted entry that holds the
\* current text or is held by it, and tests the former first.
DeduplicateOne(acc, cand) ==
    LET c_norm == Normalized(cand.text)
        hits == { k \in 1..Len(acc) :
                    \/ IsIn(c_norm, Normalized(acc[k].text))
                    \/ IsIn(Normalized(acc[k].text), c_norm) }
    IN  IF c_norm = <<>> THEN acc
        ELSE IF hits = {} THEN Append(acc, cand)
        ELSE LET first == CHOOSE k \in hits : \A h \in hits : k <= h
             IN  IF IsIn(c_norm, Normalized(acc[first].text)) THEN acc
                 ELSE [acc EXCEPT ![first] = cand]

\* the OCR texts of a page's blocks: empty, blank, one word in both cases,
\* two words on one line and over two lines, a second word, and a word that
\* holds another without a word boundary
CandidateTexts ==
    { <<>>,
      <<" ">>,
      <<"a">>,
      <<"A">>,
      <<"b">>,
      <<"a", " ", "b">>,
      <<"a", "\n", "B">>,
      <<"a", "b">> }

InitDeduplicate ==
    /\ pc = "dedup"
    /\ \E n \in 0..MaxCandidates :
          \E texts \in [1..n -> CandidateTexts] :
             candidates = [k \in 1..n |-> [id |-> k, text |-> texts[k]]]
    /\ accepted = <<>>
    /\ cand_idx = 0
    /\ IdleBase
    /\ IdleLayout
    /\ IdleExtract
    /\ IdleAudio

\* deduplicate: one candidate of the loop
DeduplicateCandidate ==
    /\ pc = "dedup"
    /\ cand_idx < Len(candidates)
    /\ accepted' = DeduplicateOne(accepted, candidates[cand_idx + 1])
    /\ cand_idx' = cand_idx + 1
    /\ UNCHANGED <<pc, candidates, basevars, lvars, evars, avars>>

\* deduplicate: return accepted
DeduplicateReturn ==
    /\ pc = "dedup"
    /\ cand_idx = Len(candidates)
    /\ pc' = "deduplicated"
    /\ UNCHANGED <<dvars, basevars, lvars, evars, avars>>

NextDeduplicate == DeduplicateCandidate \/ DeduplicateReturn

SpecDeduplicate == InitDeduplicate /\ [][NextDeduplicate]_vars

(***************************************************************************)
(* layout_analysis.py: calculate_iou, analyze_image and                    *)
(* get_text_image_regions. A region is [id, type, box, score] with the box *)
(* <<x1, y1, x2, y2>> in pixels and the score in hundredths; the id tells  *)
(* apart two detections that are alike. The page sizes of the model are    *)
(* such that h * 0.02, h * 0.10 and h * 0.90 are exact in floating point.  *)
(***************************************************************************)
\* calculate_iou as the fraction inter_area / union_area, 0 / 1 for an
\* empty union
calculate_iou(box1, box2) ==
    LET xi1 == Max(box1[1], box2[1])
        yi1 == Max(box1[2], box2[2])
        xi2 == Min(box1[3], box2[3])
        yi2 == Min(box1[4], box2[4])
        inter_area == Max(0, xi2 - xi1) * Max(0, yi2 - yi1)
        box1_area == (box1[3] - box1[1]) * (box1[4] - box1[2])
        box2_area == (box2[3] - box2[1]) * (box2[4] - box2[2])
        union_area == box1_area + box2_area - inter_area
    IN  IF union_area = 0 THEN [num |-> 0, den |-> 1]
        ELSE [num |-> inter_area, den |-> union_area]

\* slip: iou >= 0.9
IsDuplicate_AtLeast(box1, box2) ==
    LET iou == calculate_iou(box1, box2)
    IN  10 * iou.num >= 9 * iou.den

\* iou > 0.9, for boxes with x1 <= x2 and y1 <= y2
IsDuplicate(box1, box2) ==
    LET iou == calculate_iou(box1, box2)
    IN  10 * iou.num > 9 * iou.den

\* model.text_types of the default model, and analyze_image's anchor_types
valid_types == {"Text", "Title", "List"}
anchor_types == {"Title", "List", "TitleRegion"}

\* list.sort(key=...), which is stable, on the pairs <<key, block>>: a pair
\* is inserted after the pairs whose key is not greater
RECURSIVE InsertByKey(_, _)
InsertByKey(sorted, pair) ==
    IF sorted = <<>> THEN <<pair>>
    ELSE IF pair[1] < Head(sorted)[1] THEN <<pair>> \o sorted
    ELSE <<Head(sorted)>> \o InsertByKey(Tail(sorted), pair)

RECURSIVE SortedByKey(_)
SortedByKey(pairs) ==
    IF pairs = <<>> THEN <<>>
    ELSE InsertByKey(SortedByKey(SubSeq(pairs, 1, Len(pairs) - 1)), pairs[Len(pairs)])

Unkeyed(pairs) == [k \in 1..Len(pairs) |-> pairs[k][2]]

\* raw_blocks.sort(key=lambda x: x.score, reverse=True): descending and
\* stable
SortedByScore(blocks) ==
    Unkeyed(SortedByKey([k \in 1..Len(blocks) |-> <<0 - blocks[k].score, blocks[k]>>]))

\* blocks.sort(key=lambda b: b.coordinates[0]) and, with c = 2,
\* col.sort(key=lambda b: b.coordinates[1])
SortedByCoordinate(blocks, c) ==
    Unkeyed(SortedByKey([k \in 1..Len(blocks) |-> <<blocks[k].box[c], blocks[k]>>]))

\* the loop "for block in raw_blocks" of the deduplication
RECURSIVE UniqueBlocks(_, _)
UniqueBlocks(kept, raw_blocks) ==
    IF raw_blocks = <<>> THEN kept
    ELSE LET block == Head(raw_blocks)
             is_duplicate == \E k \in 1..Len(kept) : IsDuplicate(block.box, kept[k].box)
         IN  UniqueBlocks(IF is_duplicate THEN kept ELSE Append(kept, block),
                          Tail(raw_blocks))

\* b.type in anchor_types, or b_h > h * 0.02
IsAnchor(b, h) ==
    \/ b.type \in anchor_types
    \/ 50 * (b.box[4] - b.box[2]) > h

\* slip: a candidate whose centre is on the edge of the anchors' span is dropped
FinalBlocks_OpenSpan(unique, h) ==
    LET anchors == SelectSeq(unique, LAMBDA b : IsAnchor(b, h))
        cands == SelectSeq(unique, LAMBDA b : ~IsAnchor(b, h))
        tops == { anchors[k].box[2] : k \in 1..Len(anchors) }
        bottoms == { anchors[k].box[4] : k \in 1..Len(anchors) }
        min_y == CHOOSE y \in tops : \A z \in tops : y <= z
        max_y == CHOOSE y \in bottoms : \A z \in bottoms : y >= z
    IN  IF anchors # <<>>
        THEN anchors \o SelectSeq(cands, LAMBDA b :
                            /\ b.box[2] + b.box[4] > 2 * min_y
                            /\ b.box[2] + b.box[4] < 2 * max_y)
        ELSE SelectSeq(unique, LAMBDA b :
                            /\ h < 5 * (b.box[2] + b.box[4])
                            /\ 5 * (b.box[2] + b.box[4]) < 9 * h)

\* header/footer filtering, with cy = (y1 + y2) / 2 compared in halves
FinalBlocks(unique, h) ==
    LET anchors == SelectSeq(unique, LAMBDA b : IsAnchor(b, h))
        cands == SelectSeq(unique, LAMBDA b : ~IsAnchor(b, h))
        tops == { anchors[k].box[2] : k \in 1..Len(anchors) }
        bottoms == { anchors[k].box[4] : k \in 1..Len(anchors) }
        min_y == CHOOSE y \in tops : \A z \in tops : y <= z
        max_y == CHOOSE y \in bottoms : \A z \in bottoms : y >= z
    IN  IF anchors # <<>>
        THEN anchors \o SelectSeq(cands, LAMBDA b :
                            /\ ~(b.box[2] + b.box[4] < 2 * min_y)
                            /\ ~(b.box[2] + b.box[4] > 2 * max_y))
        ELSE SelectSeq(unique, LAMBDA b :
                            /\ h < 5 * (b.box[2] + b.box[4])
                            /\ 5 * (b.box[2] + b.box[4]) < 9 * h)

\* analyze_image: the unique blocks and the layout returned
analyze_image(layout, h) ==
    LET raw_blocks == SelectSeq(layout, LAMBDA b : b.type \in valid_types)
        unique == UniqueBlocks(<<>>, SortedByScore(raw_blocks))
    IN  [unique_blocks |-> unique, text_layout |-> FinalBlocks(unique, h)]

\* get_column_bin: cx < page_w / 2
get_column_bin(block, page_w) ==
    IF block.box[1] + block.box[3] < page_w THEN 0 ELSE 1

\* the crop of a block: its box padded by 10 pixels and clamped to the image
CropBox(b, h, w) ==
    << Max(0, b.box[1] - 10), Max(0, b.box[2] - 10),
       Min(w, b.box[3] + 10), Min(h, b.box[4] + 10) >>

\* slip: the blocks are read top to bottom before the columns are told apart
SortedBlocks_TopFirst(layout, w) == SortedByCoordinate(layout, 2)

\* get_text_image_regions up to sorted_blocks
SortedBlocks(layout, w) ==
    LET blocks == SortedByCoordinate(layout, 1)
        left_col == SelectSeq(blocks, LAMBDA b : get_column_bin(b, w) = 0)
        right_col == SelectSeq(blocks, LAMBDA b : get_column_bin(b, w) # 0)
    IN  SortedByCoordinate(left_col, 2) \o SortedByCoordinate(right_col, 2)

\* the regions a detector reports on a page of 1000 x 1000: header, body and
\* footer text and a figure; a thin header line and a thin line of the body;
\* two near-copies of the body; a thin title; two blocks of a right column;
\* a wide block whose centre is right of the middle
RegionKinds ==
    << [type |-> "Text",   box |-> <<50, 10, 750, 60>>,    score |-> 80],
       [type |-> "Text",   box |-> <<50, 100, 750, 500>>,  score |-> 90],
       [type |-> "Text",   box |-> <<50, 950, 750, 990>>,  score |-> 70],
       [type |-> "Figure", box |-> <<100, 500, 700, 800>>, score |-> 95],
       [type |-> "Text",   box |-> <<50, 20, 750, 40>>,    score |-> 75],
       [type |-> "Text",   box |-> <<50, 300, 450, 315>>,  score |-> 65],
       [type |-> "Text",   box |-> <<50, 110, 750, 500>>,  score |-> 85],
       [type |-> "Text",   box |-> <<50, 140, 750, 500>>,  score |-> 60],
       [type |-> "Title",  box |-> <<50, 70, 750, 85>>,    score |-> 55],
       [type |-> "Text",   box |-> <<550, 100, 950, 200>>, score |-> 50],
       [type |-> "Text",   box |-> <<550, 300, 950, 400>>, score |-> 90],
       [type |-> "Text",   box |-> <<300, 520, 950, 600>>, score |-> 45],
       [type |-> "Text",   box |-> <<50, 90, 750, 110>>,   score |-> 40] >>

Layouts ==
    { [k \in 1..Len(kinds) |->
          [id |-> k, type |-> RegionKinds[kinds[k]].type,
           box |-> RegionKinds[kinds[k]].box, score |-> RegionKinds[kinds[k]].score]] :
      kinds \in UNION { [1..n -> 1..Len(RegionKinds)] : n \in 0..MaxRegions } }

\* a page on which the layout model has run
InitAnalyze ==
    /\ pc = "page"
    /\ image = [h |-> 1000, w |-> 1000]
    /\ detected \in Layouts
    /\ unique_blocks = <<>>
    /\ text_layout = <<>>
    /\ IdleRegions

\* a call of get_text_image_regions with a layout of the caller's
InitRegions ==
    /\ pc = "analyzed"
    /\ image = [h |-> 1000, w |-> 1000]
    /\ text_layout \in Layouts
    /\ IdleAnalyze
    /\ IdleRegions

InitLayout ==
    /\ InitAnalyze \/ InitRegions
    /\ IdleBase
    /\ IdleDeduplicate
    /\ IdleExtract
    /\ IdleAudio

\* layout_analysis.analyze_image(pil_image, layout_model)
AnalyzeImage ==
    /\ pc = "page"
    /\ unique_blocks' = analyze_image(detected, image.h).unique_blocks
    /\ text_layout' = analyze_image(detected, image.h).text_layout
    /\ pc' = "analyzed"
    /\ UNCHANGED <<image, detected, sorted_blocks, cropped_images, basevars, dvars, evars, avars>>

\* layout_analysis.get_text_image_regions(pil_image, layout)
GetTextImageRegions ==
    /\ pc = "analyzed"
    /\ sorted_blocks' = SortedBlocks(text_layout, image.w)
    /\ cropped_images' = [k \in 1..Len(SortedBlocks(text_layout, image.w)) |->
                             CropBox(SortedBlocks(text_layout, image.w)[k], image.h, image.w)]
    /\ pc' = "cropped"
    /\ UNCHANGED <<image, detected, unique_blocks, text_layout, basevars, dvars, evars, avars>>

NextLayout == AnalyzeImage \/ GetTextImageRegions

SpecLayout == InitLayout /\ [][NextLayout]_vars

(***************************************************************************)
(* split_pdf.py: extract_sentences_from_pdf. A page of the PDF is          *)
(* [none, text, blocks]: what page.extract_text() returns for it (None or  *)
(* a text) and the OCR texts of its column or layout images, in order.     *)
(* What sent_tokenize makes of a cleaned text is not modelled: a page file *)
(* is recorded with the cleaned text it is written from.                   *)
(***************************************************************************)
\* sep.join(texts)
RECURSIVE Join(_, _)
Join(sep, texts) ==
    IF texts = <<>> THEN <<>>
    ELSE IF Len(texts) = 1 THEN texts[1]
    ELSE texts[1] \o sep \o Join(sep, Tail(texts))

\* quality_filter.deduplicate(page_candidates)
RECURSIVE DeduplicateFrom(_, _)
DeduplicateFrom(acc, cands) ==
    IF cands = <<>> THEN acc
    ELSE DeduplicateFrom(DeduplicateOne(acc, Head(cands)), Tail(cands))

deduplicate(cands) == DeduplicateFrom(<<>>, cands)

\* the loop "for cand in unique_candidates": is_valid on each text and add
\* on the valid ones; st holds the filter's line_lengths, the count of
\* recording add calls, the last is_valid call and the texts kept
\* slip: add is called for every block, whatever is_valid returned
RECURSIVE FilterBlocks_AddsEveryBlock(_, _)
FilterBlocks_AddsEveryBlock(st, cands) ==
    IF cands = <<>> THEN st
    ELSE LET text == Head(cands).text
             v == is_valid(st.line_lengths, text)
             seen == [text |-> text, valid |-> v.valid, reason |-> v.reason]
         IN  FilterBlocks_AddsEveryBlock(
                [line_lengths |-> st.line_lengths \o LineLengthsOf(text),
                 blocks_recorded |-> IF LineLengthsOf(text) = <<>>
                                     THEN st.blocks_recorded
                                     ELSE st.blocks_recorded + 1,
                 verdict |-> seen,
                 texts |-> IF v.valid THEN Append(st.texts, text) ELSE st.texts],
                Tail(cands))

RECURSIVE FilterBlocks(_, _)
FilterBlocks(st, cands) ==
    IF cands = <<>> THEN st
    ELSE LET text == Head(cands).text
             v == is_valid(st.line_lengths, text)
             seen == [text |-> text, valid |-> v.valid, reason |-> v.reason]
         IN  FilterBlocks(
                IF v.valid
                THEN [line_lengths |-> st.line_lengths \o LineLengthsOf(text),
                      blocks_recorded |-> IF LineLengthsOf(text) = <<>>
                                          THEN st.blocks_recorded
                                          ELSE st.blocks_recorded + 1,
                      verdict |-> seen,
                      texts |-> Append(st.texts, text)]
                ELSE [st EXCEPT !.verdict = seen],
                Tail(cands))

\* slip: the dry run takes every page from the start page on
PageLimit_WholeDocument == Len(pdf)

\* min(start_page + 5, len(pdf)) of the dry run
DryRunPages == 5

PageLimit ==
    IF mode = "dry_run" THEN Min(start_page + DryRunPages, Len(pdf)) ELSE Len(pdf)

\* the pages of a document: unreadable and without blocks; empty text and an
\* empty block; blank text and a garbled and a blank block; a word; a break
\* to join and two alike blocks; two words and a block inside another
PageKinds ==
    { [none |-> TRUE,  text |-> <<>>, blocks |-> <<>>],
      [none |-> FALSE, text |-> <<>>, blocks |-> << <<>> >>],
      [none |-> FALSE, text |-> <<" ">>, blocks |-> << <<".", ".">>, <<" ">> >>],
      [none |-> FALSE, text |-> <<"a">>, blocks |-> << <<"a">> >>],
      [none |-> FALSE, text |-> <<"a", "-", "\n", "b">>, blocks |-> << <<"a">>, <<"A">> >>],
      [none |-> FALSE, text |-> <<"a", " ", "b">>,
       blocks |-> << <<"a">>, <<"a", " ", "b">> >>] }

\* documents longer than the dry run's window, of pages that hold one word
LongPdfs ==
    { [k \in 1..n |-> [none |-> FALSE, text |-> <<"a">>, blocks |-> << <<"a">> >>]] :
      n \in (MaxPages + 1)..MaxLongPages }

\* the dependency the call asks for and the imports did not provide
MissingDependency_OcrOnly(ocr, layout, ocr_available, layout_available) ==
    IF ocr /\ ~ocr_available THEN "OCR" ELSE "none"

MissingDependency(ocr, layout, ocr_available, layout_available) ==
    IF ocr /\ ~ocr_available THEN "OCR"
    ELSE IF layout /\ ~layout_available THEN "Layout Analysis"
    ELSE "none"

InitExtract ==
    /\ pc = "split_pdf"
    /\ OCR_AVAILABLE \in BOOLEAN
    /\ LAYOUT_AVAILABLE \in BOOLEAN
    /\ output_dir_made = FALSE
    /\ terminated = NotTerminated
    /\ mode \in {"text", "ocr", "dry_run"}
    /\ auto_layout \in BOOLEAN
    /\ start_page \in 0..1
    /\ pdf \in UNION { [1..n -> PageKinds] : n \in 0..MaxPages } \cup LongPdfs
    /\ page_i = start_page
    /\ all_pages_text = <<>>
    /\ page_files = <<>>
    /\ full_text_file = NotWritten
    /\ page_log = <<>>
    /\ IdleBase
    /\ IdleDeduplicate
    /\ IdleLayout
    /\ IdleAudio

\* the head of extract_sentences_from_pdf: the two dependency tests, then
\* the output directory
ExtractStart ==
    /\ pc = "split_pdf"
    /\ LET missing == MissingDependency(mode # "text", auto_layout,
                                        OCR_AVAILABLE, LAYOUT_AVAILABLE)
       IN  IF missing # "none"
           THEN /\ terminated' = [exited |-> TRUE, status |-> 1, message |-> missing]
                /\ pc' = "exited"
                /\ UNCHANGED output_dir_made
           ELSE /\ output_dir_made' = TRUE
                /\ pc' = "extract"
                /\ UNCHANGED terminated
    /\ UNCHANGED <<mode, auto_layout, start_page, pdf, page_i, all_pages_text, page_files,
                   full_text_file, page_log, OCR_AVAILABLE, LAYOUT_AVAILABLE,
                   basevars, dvars, lvars, avars>>

\* one turn of the page loop of the path taken
ExtractPage ==
    /\ pc = "extract"
    /\ page_i < PageLimit
    /\ LET page == pdf[page_i + 1]
           cands == [k \in 1..Len(page.blocks) |-> [id |-> k, text |-> page.blocks[k]]]
           st == FilterBlocks([line_lengths |-> line_lengths,
                               blocks_recorded |-> blocks_recorded,
                               verdict |-> verdict, texts |-> <<>>],
                              deduplicate(cands))
           full_text == Flatten([k \in 1..Len(st.texts) |-> st.texts[k] \o <<"\n">>])
           raw_page_text == Join(<<"\n">>, st.texts)
           Saved(cleaned_text, kept, message) ==
               /\ all_pages_text' = Append(all_pages_text, cleaned_text)
               /\ page_files' = Append(page_files, [page |-> page_i + 1, text |-> cleaned_text])
               /\ page_log' = Append(page_log, [page |-> page_i + 1, kept |-> kept,
                                                message |-> message])
           Skipped(kept, message) ==
               /\ page_log' = Append(page_log, [page |-> page_i + 1, kept |-> kept,
                                                message |-> message])
               /\ UNCHANGED <<all_pages_text, page_files>>
       IN  IF mode = "text"
           THEN /\ IF page.none \/ page.text = <<>>
                   THEN Skipped(0, "empty or unreadable")
                   ELSE Saved(clean_pdf_text(page.text), 1, "Saved")
                /\ UNCHANGED <<line_lengths, blocks_recorded, verdict>>
           ELSE IF mode = "ocr"
           THEN /\ Saved(clean_pdf_text(full_text), Len(st.texts), "Saved")
                /\ line_lengths' = st.line_lengths
                /\ blocks_recorded' = st.blocks_recorded
                /\ verdict' = st.verdict
           ELSE IF auto_layout /\ page.blocks = <<>>
           THEN /\ Skipped(0, "No text blocks detected")
                /\ UNCHANGED <<line_lengths, blocks_recorded, verdict>>
           ELSE /\ IF st.texts # <<>>
                   THEN Saved(clean_pdf_text(raw_page_text), Len(st.texts),
                              "Saved stitched page")
                   ELSE Skipped(0, "none")
                /\ line_lengths' = st.line_lengths
                /\ blocks_recorded' = st.blocks_recorded
                /\ verdict' = st.verdict
    /\ page_i' = page_i + 1
    /\ UNCHANGED <<pc, mode, auto_layout, start_page, pdf, full_text_file,
                   OCR_AVAILABLE, LAYOUT_AVAILABLE, output_dir_made, terminated,
                   disable_line_length_filter, gvars, nvars, rvars, dvars, lvars, avars>>

\* after the loop: full_text.txt, which the dry run writes only when it has
\* some page text
ExtractFinish ==
    /\ pc = "extract"
    /\ page_i >= PageLimit
    /\ full_text_file' =
          IF mode = "dry_run" /\ all_pages_text = <<>> THEN NotWritten
          ELSE [written |-> TRUE, text |-> Join(<<"\n", "\n">>, all_pages_text)]
    /\ pc' = "extracted"
    /\ UNCHANGED <<mode, auto_layout, start_page, pdf, page_i, all_pages_text, page_files,
                   page_log, OCR_AVAILABLE, LAYOUT_AVAILABLE, output_dir_made, terminated,
                   basevars, dvars, lvars, avars>>

NextExtract == ExtractStart \/ ExtractPage \/ ExtractFinish

SpecExtract == InitExtract /\ [][NextExtract]_vars

(***************************************************************************)
(* process_pdf.py: the loop of main over the groups and run_generate_audio;*)
(* generate_audio.py: main, text_file_to_mp3, concat_mp3s and run_quietly. *)
(* What the synthesis engine and ffmpeg do is the environment's choice at  *)
(* each step.                                                              *)
(***************************************************************************)
\* generate_audio(...) of mlx_audio: it writes the WAV, returns without one,
\* or raises
SynthesisOutcomes == {"wav", "no_wav", "raises"}
\* subprocess.run(command) of run_quietly, without check: ffmpeg succeeds,
\* exits with a non-zero code, or cannot be started (FileNotFoundError)
FfmpegOutcomes == {"ok", "nonzero", "not_found"}

Failed(step) == failures \cup {[group |-> g_idx + 1, file |-> t_idx + 1, step |-> step]}

InitAudio ==
    /\ pc = "audio"
    /\ audio_groups \in UNION { [1..n -> 1..MaxAudioFiles] : n \in 1..MaxAudioGroups }
    /\ g_idx = 0
    /\ t_idx = 0
    /\ generated_mp3s = <<>>
    /\ exit_codes = <<>>
    /\ failures = {}
    /\ IdleBase
    /\ IdleDeduplicate
    /\ IdleLayout
    /\ IdleExtract

\* process_pdf.main: the next group; run_generate_audio starts generate_audio.py
RunGenerateAudio ==
    /\ pc = "audio"
    /\ g_idx < Len(audio_groups)
    /\ pc' = "generating"
    /\ t_idx' = 0
    /\ generated_mp3s' = <<>>
    /\ UNCHANGED <<audio_groups, g_idx, exit_codes, failures, basevars, dvars, lvars, evars>>

\* generate_audio.main: one file of the loop, with text_file_to_mp3 when its
\* MP3 does not exist yet. An exception ends the process with exit code 1.
TextFileToMp3 ==
    /\ pc = "generating"
    /\ t_idx < audio_groups[g_idx + 1]
    /\ \E mp3_exists \in BOOLEAN, synthesis \in SynthesisOutcomes, ffmpeg \in FfmpegOutcomes :
          IF mp3_exists
          THEN /\ generated_mp3s' = Append(generated_mp3s, t_idx + 1)
               /\ t_idx' = t_idx + 1
               /\ UNCHANGED <<pc, exit_codes, failures>>
          ELSE IF synthesis = "raises"
          THEN /\ failures' = Failed("synthesis")
               /\ exit_codes' = Append(exit_codes, 1)
               /\ pc' = "exited"
               /\ UNCHANGED <<t_idx, generated_mp3s>>
          ELSE IF synthesis = "no_wav"
          THEN /\ failures' = Failed("synthesis")
               /\ t_idx' = t_idx + 1
               /\ UNCHANGED <<pc, exit_codes, generated_mp3s>>
          ELSE IF ffmpeg = "not_found"
          THEN /\ failures' = Failed("transcoding")
               /\ exit_codes' = Append(exit_codes, 1)
               /\ pc' = "exited"
               /\ UNCHANGED <<t_idx, generated_mp3s>>
          ELSE /\ failures' = IF ffmpeg = "nonzero" THEN Failed("transcoding") ELSE failures
               /\ generated_mp3s' = Append(generated_mp3s, t_idx + 1)
               /\ t_idx' = t_idx + 1
               /\ UNCHANGED <<pc, exit_codes>>
    /\ UNCHANGED <<audio_groups, g_idx, basevars, dvars, lvars, evars>>

\* generate_audio.main after the loop: concat_mp3s when some MP3 was
\* generated (process_pdf always gives --output), then the process ends
ConcatMp3s ==
    /\ pc = "generating"
    /\ t_idx = audio_groups[g_idx + 1]
    /\ \E ffmpeg \in FfmpegOutcomes :
          IF generated_mp3s = <<>>
          THEN /\ exit_codes' = Append(exit_codes, 0)
               /\ UNCHANGED failures
          ELSE /\ failures' = IF ffmpeg = "ok" THEN failures ELSE Failed("concatenation")
               /\ exit_codes' = Append(exit_codes, IF ffmpeg = "not_found" THEN 1 ELSE 0)
    /\ pc' = "exited"
    /\ UNCHANGED <<audio_groups, g_idx, t_idx, generated_mp3s, basevars, dvars, lvars, evars>>

\* run_generate_audio: subprocess.run(cmd, check=True) returns, or raises
\* CalledProcessError on a non-zero exit code, which ends main
RunGenerateAudioReturns ==
    /\ pc = "exited"
    /\ IF exit_codes[Len(exit_codes)] = 0
       THEN /\ g_idx' = g_idx + 1
            /\ pc' = "audio"
       ELSE /\ pc' = "raised"
            /\ UNCHANGED g_idx
    /\ UNCHANGED <<audio_groups, t_idx, generated_mp3s, exit_codes, failures,
                   basevars, dvars, lvars, evars>>

\* process_pdf.main: "All done!"
AllDone ==
    /\ pc = "audio"
    /\ g_idx = Len(audio_groups)
    /\ pc' = "done"
    /\ UNCHANGED <<avars, basevars, dvars, lvars, evars>>

NextAudio ==
    \/ RunGenerateAudio
    \/ TextFileToMp3
    \/ ConcatMp3s
    \/ RunGenerateAudioReturns
    \/ AllDone

SpecAudio == InitAudio /\ [][NextAudio]_vars

(***************************************************************************)
(* process_pdf.py: page_num and group_text_files.                          *)
(***************************************************************************)
TxtSuffix == <<".", "t", "x", "t">>

\* The directory entries the model draws from: numbered pages, a page with a
\* two-digit number, a name with two numerals, a name with a leading zero, a
\* name without a numeral (such as full_text.txt) and a file that is no .txt.
FileNames ==
    { <<"p", "1">> \o TxtSuffix,
      <<"p", "2">> \o TxtSuffix,
      <<"p", "1", "0">> \o TxtSuffix,
      <<"7", "p", "3">> \o TxtSuffix,
      <<"p", "0", "2">> \o TxtSuffix,
      <<"f">> \o TxtSuffix,
      <<"p", "5", ".", "m", "d">> }

\* slip: one file too few is skipped
SkipFirst_OffByOne(all_txts, n) == IF n > 0 THEN DropFirst(all_txts, n - 1) ELSE all_txts

\* slip: re.search(r'\d+') without the lookahead, the first numeral of the name
page_num_FirstNumeral(name) ==
    LET starts == { k \in 1..Len(name) : name[k] \in Digits }
    IN  IF starts = {} \/ ~EndsWith(name, TxtSuffix) THEN -1
        ELSE LET first == CHOOSE k \in starts : \A m \in starts : k <= m
                 last == CHOOSE e \in first..Len(name) :
                            /\ AllDigits(SubSeq(name, first, e))
                            /\ e < Len(name) => name[e + 1] \notin Digits
             IN  IntOfDigits(SubSeq(name, first, last))

\* Path.glob("*.txt"): the entries whose name ends in .txt, in listing order
GlobTxt(entries) == SelectSeq(entries, LAMBDA name : EndsWith(name, TxtSuffix))

\* re.search(r'(\d+)(?=\.txt$)', name): the start positions at which \d+ can
\* match with ".txt" and the end of the name right after it
NumeralStarts(name) ==
    { k \in 1..Len(name) :
        /\ k <= Len(name) - Len(TxtSuffix)
        /\ AllDigits(SubSeq(name, k, Len(name) - Len(TxtSuffix)))
        /\ EndsWith(name, TxtSuffix) }

page_num(name) ==
    LET starts == NumeralStarts(name)
    IN  IF starts = {} THEN -1
        ELSE LET first == CHOOSE k \in starts : \A m \in starts : k <= m
             IN  IntOfDigits(SubSeq(name, first, Len(name) - Len(TxtSuffix)))

\* sorted(..., key=page_num): a stable sort
RECURSIVE InsertByPageNum(_, _)
InsertByPageNum(sorted, name) ==
    IF sorted = <<>> THEN <<name>>
    ELSE IF page_num(Head(sorted)) <= page_num(name)
         THEN <<Head(sorted)>> \o InsertByPageNum(Tail(sorted), name)
         ELSE <<name>> \o sorted

RECURSIVE SortedByPageNum(_)
SortedByPageNum(names) ==
    IF names = <<>> THEN <<>>
    ELSE InsertByPageNum(SortedByPageNum(SubSeq(names, 1, Len(names) - 1)),
                         names[Len(names)])

\* [all_txts[i:i + group_size] for i in range(0, len(all_txts), group_size)]
RECURSIVE Chunks(_, _)
Chunks(files, size) ==
    IF files = <<>> THEN <<>>
    ELSE <<SubSeq(files, 1, Min(size, Len(files)))>> \o Chunks(DropFirst(files, size), size)

\* slip: the lowest page number instead of the highest
PadWidthOf_Lowest(all_txts) == Len(StrInt(page_num(all_txts[1])))

PadWidthOf(all_txts) == Len(StrInt(page_num(all_txts[Len(all_txts)])))

SkipFirst(all_txts, n) == IF n > 0 THEN DropFirst(all_txts, n) ELSE all_txts

group_text_files(entries, size, n) ==
    LET all_txts == SortedByPageNum(GlobTxt(entries))
    IN  IF all_txts = <<>> THEN [groups |-> <<>>, pad |-> 0]
        ELSE [groups |-> SelectSeq(Chunks(SkipFirst(all_txts, n), size),
                                   LAMBDA g : g # <<>>),
              pad    |-> PadWidthOf(all_txts)]

\* main: the first and last page labels of the MP3 of one group
GroupLabels(g, width) ==
    [first |-> zfill(StrInt(page_num(g[1])), width),
     last  |-> zfill(StrInt(page_num(g[Len(g)])), width)]

Directories ==
    { d \in UNION { [1..n -> FileNames] : n \in 0..MaxFiles } :
        \A a, b \in 1..Len(d) : a # b => d[a] # d[b] }

InitGroup ==
    /\ pc = "ready"
    /\ text_dir \in Directories
    /\ group_size \in 1..MaxGroupSize
    /\ skip \in -1..MaxSkip
    /\ groups = <<>>
    /\ pad = 0
    /\ out_files = <<>>
    /\ IdleNormalizer
    /\ IdleSegmenter
    /\ IdleFilter
    /\ IdleOthers

\* main, step 2: groups, pad = group_text_files(temp_dir, args.group, args.skip)
GroupTextFiles ==
    /\ pc = "ready"
    /\ LET r == group_text_files(text_dir, group_size, skip)
       IN  /\ groups' = r.groups
           /\ pad' = r.pad
    /\ pc' = "grouped"
    /\ UNCHANGED <<text_dir, group_size, skip, out_files, nvars, rvars, fvars, ovars>>

\* main, step 3: one iteration of "for g in groups"
GenerateGroup ==
    /\ pc = "grouped"
    /\ Len(out_files) < Len(groups)
    /\ out_files' = Append(out_files, GroupLabels(groups[Len(out_files) + 1], pad))
    /\ UNCHANGED <<pc, text_dir, group_size, skip, groups, pad, nvars, rvars, fvars, ovars>>

NextGroup == GroupTextFiles \/ GenerateGroup

Spec == InitGroup /\ [][NextGroup]_vars

(***************************************************************************)
(* process_pdf.py, main as a whole: run_split_pdf on the PDF, then the     *)
(* grouping of the directory split_pdf.py wrote to and the loop over the   *)
(* groups.                                                                 *)
(***************************************************************************)
\* f"page_{i + 1}.txt" and "full_text.txt"
PageFileName(n) == <<"p", "a", "g", "e", "_">> \o StrNat(n) \o TxtSuffix
FullTextName == <<"f", "u", "l", "l", "_", "t", "e", "x", "t">> \o TxtSuffix

\* the entries of the directory after split_pdf.py: the page files in the
\* order they were written, then full_text.txt
WrittenFiles ==
    [k \in 1..Len(page_files) |-> PageFileName(page_files[k].page)]
       \o (IF full_text_file.written THEN <<FullTextName>> ELSE <<>>)

\* a full run: no --ocr-dry-run, so split_pdf.py starts at page 0
InitPipeline ==
    /\ pc = "split_pdf"
    /\ OCR_AVAILABLE \in BOOLEAN
    /\ LAYOUT_AVAILABLE = TRUE
    /\ output_dir_made = FALSE
    /\ terminated = NotTerminated
    /\ mode \in {"text", "ocr"}
    /\ auto_layout = FALSE
    /\ start_page = 0
    /\ pdf \in UNION { [1..n -> PageKinds] : n \in 0..MaxPages } \cup LongPdfs
    /\ page_i = 0
    /\ all_pages_text = <<>>
    /\ page_files = <<>>
    /\ full_text_file = NotWritten
    /\ page_log = <<>>
    /\ text_dir = <<>>
    /\ group_size \in 1..MaxGroupSize
    /\ skip \in 0..MaxSkip
    /\ groups = <<>>
    /\ pad = 0
    /\ out_files = <<>>
    /\ IdleNormalizer
    /\ IdleSegmenter
    /\ IdleFilter
    /\ IdleDeduplicate
    /\ IdleLayout
    /\ IdleAudio

\* run_split_pdf returns: subprocess.run(cmd, check=True) raises when
\* split_pdf.py has exited with status 1; otherwise main goes on to the
\* directory as split_pdf.py left it
RunSplitPdfReturns ==
    /\ pc \in {"extracted", "exited"}
    /\ IF pc = "exited"
       THEN /\ pc' = "raised"
            /\ UNCHANGED text_dir
       ELSE /\ pc' = "ready"
            /\ text_dir' = WrittenFiles
    /\ UNCHANGED <<group_size, skip, groups, pad, out_files, nvars, rvars, fvars, ovars>>

NextPipeline == NextExtract \/ RunSplitPdfReturns \/ NextGroup

SpecPipeline == InitPipeline /\ [][NextPipeline]_vars

(***************************************************************************)
(* Properties of the page grouper.                                         *)
(***************************************************************************)
AllTxts == GlobTxt(text_dir)
Grouped == Flatten(groups)
PageNums(files) == { page_num(files[k]) : k \in 1..Len(files) }
HighestPage == CHOOSE n \in PageNums(AllTxts) : \A m \in PageNums(AllTxts) : m <= n

\* the number of decimal digits of a natural number, by repeated division
RECURSIVE DecimalDigits(_)
DecimalDigits(n) == IF n < 10 THEN 1 ELSE 1 + DecimalDigits(n \div 10)

\* The numeral that immediately precedes ".txt": the longest all-digit suffix
\* of the stem, and its value as a sum of digit * power of ten.
Stem(name) == SubSeq(name, 1, Len(name) - Len(TxtSuffix))
TrailingDigits(name) ==
    LET stem == Stem(name)
        count == CHOOSE c \in 0..Len(stem) :
                    /\ AllDigits(SubSeq(stem, Len(stem) - c + 1, Len(stem)))
                    /\ c < Len(stem) => stem[Len(stem) - c] \notin Digits
    IN  SubSeq(stem, Len(stem) - count + 1, Len(stem))
RECURSIVE PowerOfTen(_)
PowerOfTen(e) == IF e = 0 THEN 1 ELSE 10 * PowerOfTen(e - 1)
RECURSIVE PositionalSum(_, _)
PositionalSum(digs, k) ==
    IF k > Len(digs) THEN 0
    ELSE DigitValue(digs[k]) * PowerOfTen(Len(digs) - k) + PositionalSum(digs, k + 1)
ExpectedPage(name) ==
    IF TrailingDigits(name) = <<>> THEN -1 ELSE PositionalSum(TrailingDigits(name), 1)

\* C1: for group_size >= 1 and skip >= 0 the groups, concatenated in order,
\* are the numerically sorted .txt files without the first `skip` of them
\* (nothing lost, nothing repeated, ascending page numbers, the skipped files
\* being the lowest); every group but the last has exactly group_size files,
\* the last has 1..group_size, none is empty; skip >= file count gives no
\* group; with pages 1..n and skip = k < n the first group starts at page k+1.
C1_GroupsPartitionSortedFiles ==
    (pc = "grouped" /\ skip >= 0) =>
        LET all == AllTxts
            got == Grouped
            page == [k \in 1..Len(got) |-> page_num(got[k])]
            left == { all[t] : t \in 1..Len(all) } \ { got[k] : k \in 1..Len(got) }
        IN  /\ got = DropFirst(SortedByPageNum(all), skip)
            /\ Len(got) = Max(Len(all) - skip, 0)
            /\ \A a, b \in 1..Len(got) :
                  a < b => (got[a] # got[b] /\ page[a] <= page[b])
            /\ \A a \in 1..Len(got) : \E t \in 1..Len(all) : all[t] = got[a]
            /\ \A f \in left : \A a \in 1..Len(got) : page_num(f) <= page[a]
            /\ \A g \in 1..Len(groups) :
                  /\ Len(groups[g]) >= 1
                  /\ Len(groups[g]) <= group_size
                  /\ g < Len(groups) => Len(groups[g]) = group_size
            /\ skip >= Len(all) => groups = <<>>
            /\ (skip < Len(all) /\ PageNums(all) = 1..Len(all))
                  => page_num(groups[1][1]) = skip + 1

C1_Witness ==
    /\ pc = "grouped"
    /\ skip >= 1
    /\ Len(groups) >= 2
    /\ Len(groups[Len(groups)]) < group_size
    /\ page_num(groups[1][1]) = 2

\* C2: every label main builds for an output file name (the first and the
\* last page number of a group, zero-padded to the returned width) is a
\* string of exactly the returned width.
C2_LabelsHavePadWidth ==
    \A k \in 1..Len(out_files) :
        /\ Len(out_files[k].first) = pad
        /\ Len(out_files[k].last) = pad

\* C3 as stated: the padding width is the number of decimal digits of the
\* highest page number among all .txt files, whatever skip is, and it is 0
\* exactly when there is no .txt file.
C3_PadIsDigitCountOfHighest ==
    pc = "grouped" =>
        /\ AllTxts # <<>> =>
              pad = DecimalDigits(IF HighestPage < 0 THEN -HighestPage ELSE HighestPage)
        /\ pad = 0 <=> AllTxts = <<>>

\* C3 as amended: the padding width is the length of the decimal
\* representation of the highest page number among all .txt files, computed
\* before skip is applied and so the same for every skip: the number of its
\* decimal digits when some file carries a numeral, and 2 (the length of
\* "-1", sign included) when no file does; it is 0 exactly when there is no
\* .txt file.
C3_PadIsPrintWidthOfHighest ==
    pc = "grouped" =>
        LET all == AllTxts
            highest == HighestPage
        IN  /\ (all # <<>> /\ highest >= 0) => pad = DecimalDigits(highest)
            /\ (all # <<>> /\ highest < 0) => pad = 2
            /\ pad = 0 <=> all = <<>>

C3_Witness ==
    /\ pc = "grouped"
    /\ AllTxts # <<>>
    /\ skip >= Len(AllTxts)
    /\ groups = <<>>
    /\ HighestPage = 10
    /\ pad = 2

\* C4: the grouped files are in ascending order of the integer value of the
\* numeral that immediately precedes ".txt" (the last numeral of the name),
\* which is what page_num returns; the order is numeric (2 before 10); a
\* name without such a numeral has page number -1 and precedes every
\* numbered file.
C4_NumericOrderByLastNumeral ==
    pc = "grouped" =>
        LET all == AllTxts
            got == Grouped
            expected == [k \in 1..Len(got) |-> ExpectedPage(got[k])]
        IN  /\ \A k \in 1..Len(all) : page_num(all[k]) = ExpectedPage(all[k])
            /\ \A a, b \in 1..Len(got) : a < b => expected[a] <= expected[b]
            /\ \A a, b \in 1..Len(got) :
                  (expected[a] = -1 /\ TrailingDigits(got[b]) # <<>>) => a < b

C4_Witness ==
    /\ pc = "grouped"
    /\ text_dir = << <<"p", "1", "0">> \o TxtSuffix, <<"7", "p", "3">> \o TxtSuffix,
                     <<"p", "2">> \o TxtSuffix, <<"f">> \o TxtSuffix >>
    /\ Grouped = << <<"f">> \o TxtSuffix, <<"p", "2">> \o TxtSuffix,
                    <<"7", "p", "3">> \o TxtSuffix, <<"p", "1", "0">> \o TxtSuffix >>

(***************************************************************************)
(* Properties of the text normalizer.                                      *)
(***************************************************************************)
Contains(s, sub) ==
    \E k \in 1..(Len(s) - Len(sub) + 1) : SubSeq(s, k, k + Len(sub) - 1) = sub
Count(s, c) == Cardinality({ k \in 1..Len(s) : s[k] = c })

\* the positions of the hyphens of s that stand between a word character and
\* a newline followed by a word character
HyphenBreaks(s) ==
    { k \in 2..(Len(s) - 2) :
        /\ s[k] = "-"
        /\ s[k + 1] = "\n"
        /\ s[k - 1] \in WordChars
        /\ s[k + 2] \in WordChars }
RECURSIVE WordRunStart(_, _)
WordRunStart(s, k) ==
    IF k >= 1 /\ s[k] \in WordChars THEN WordRunStart(s, k - 1) ELSE k + 1
\* the word before the hyphen at k joined to the word after the newline
JoinedWord(s, k) ==
    SubSeq(s, WordRunStart(s, k - 1), k - 1) \o SubSeq(s, k + 2, WordRunEnd(s, k + 2))

\* C5: clean_pdf_text is idempotent: cleaning a cleaned text changes nothing.
C5_CleanIsIdempotent ==
    pc = "recleaned" => recleaned = cleaned

C5_Witness ==
    /\ pc = "recleaned"
    /\ HyphenBreaks(raw_text) # {}
    /\ Contains(raw_text, <<" ", "\n">>)
    /\ cleaned # raw_text
    /\ cleaned # <<>>

\* C6: for every hyphenated line break X-\nY of the input (several in a row
\* included) the cleaned text contains the joined word XY and the hyphen of
\* the break is gone: the text keeps none of the hyphens of its breaks.
C6_EveryHyphenBreakJoined ==
    pc # "raw" =>
        /\ \A k \in HyphenBreaks(raw_text) : Contains(cleaned, JoinedWord(raw_text, k))
        /\ Count(cleaned, "-") = Count(raw_text, "-") - Cardinality(HyphenBreaks(raw_text))

\* C7: the cleaned text is in whitespace normal form: no two consecutive
\* spaces, every maximal run of newlines of length exactly 2, no leading and
\* no trailing whitespace.
C7_WhitespaceNormalForm ==
    pc # "raw" =>
        /\ ~Contains(cleaned, <<" ", " ">>)
        /\ \A k \in 1..Len(cleaned) :
              cleaned[k] = "\n" =>
                  ((k > 1 /\ cleaned[k - 1] = "\n") # (k < Len(cleaned) /\ cleaned[k + 1] = "\n"))
        /\ cleaned # <<>> =>
              (cleaned[1] \notin Whitespace /\ cleaned[Len(cleaned)] \notin Whitespace)

C7_Witness ==
    /\ pc = "cleaned"
    /\ Contains(raw_text, <<"\n", "\n", "\n">>)
    /\ raw_text[1] = " "
    /\ Contains(cleaned, <<"\n", "\n">>)

(***************************************************************************)
(* Properties of the paragraph segmenter.                                  *)
(***************************************************************************)
\* the list-item pattern: optional whitespace, then digits and "." or ")",
\* or a bullet or dash, then whitespace
MatchesListItem(line) ==
    \E a \in 0..Len(line), b \in 1..Len(line) :
        /\ a < b
        /\ b < Len(line)
        /\ \A k \in 1..a : line[k] \in Whitespace
        /\ \/ b = a + 1 /\ line[b] \in {Bullet, "-"}
           \/ b > a + 1 /\ AllDigits(SubSeq(line, a + 1, b - 1)) /\ line[b] \in {".", ")"}
        /\ line[b + 1] \in Whitespace

TokenStarts(line) ==
    { k \in 1..Len(line) : line[k] \notin Whitespace /\ (k = 1 \/ line[k - 1] \in Whitespace) }

\* an all-caps heading of at least two whitespace-separated tokens
IsAllCapsHeading(line) ==
    /\ \E k \in 1..Len(line) : line[k] \notin Whitespace
    /\ \A k \in 1..Len(line) :
          line[k] \in Upper \cup Digits \cup Whitespace \cup {"-", ":", ","}
    /\ Cardinality(TokenStarts(line)) >= 2

FirstToken(line) ==
    IF TokenStarts(line) = {} THEN <<>>
    ELSE LET a == CHOOSE k \in TokenStarts(line) : \A m \in TokenStarts(line) : k <= m
             b == CHOOSE e \in a..Len(line) :
                     /\ \A k \in a..e : line[k] \notin Whitespace
                     /\ e < Len(line) => line[e + 1] \in Whitespace
         IN  SubSeq(line, a, b)

ParagraphStartExpected(prev, curr) ==
    \/ prev = <<>>
    \/ MatchesListItem(curr)
    \/ IsAllCapsHeading(curr)
    \/ /\ prev # <<>>
       /\ prev[Len(prev)] \in {".", "?", "!", ":"}
       /\ FirstToken(curr) # <<>>
       /\ FirstToken(curr) \notin CONTINUATION_WORDS

\* clean_text is about to consult should_start_new_paragraph for the next line
NextLine == strip(lines[i + 1])
Consulted ==
    /\ pc = "clean"
    /\ i < Len(lines)
    /\ NextLine # <<>>
    /\ buffer # <<>>
    /\ buffer[Len(buffer)] # "-"

\* C8: should_start_new_paragraph returns True exactly when the buffer is
\* empty, or the line matches the list-item pattern, or the trimmed line is
\* an all-caps heading of two or more tokens, or the buffer ends with one of
\* . ? ! : and the line's first token is non-empty and is not, in exact case,
\* a continuation word; whenever clean_text consults it and none of these
\* holds, clean_text appends the line to the buffer with one space.
C8_NewParagraphExactlyWhen ==
    /\ [](pc = "answered" =>
            (starts_new <=> ParagraphStartExpected(prev_line, curr_line)))
    /\ [][(Consulted /\ ~ParagraphStartExpected(buffer, NextLine)) =>
            (/\ buffer' = buffer \o <<" ">> \o NextLine
             /\ paragraphs' = paragraphs)]_vars

C8_Witness ==
    /\ pc = "answered"
    /\ prev_line = <<"d", ".">>
    /\ curr_line = <<"A", "N", "D">>
    /\ starts_new = TRUE

\* C9 as stated: every input line that matches the list-item pattern (taken
\* on the trimmed line, as clean_text does) begins a new paragraph, whatever
\* the lines before it hold: the line alone starts the next buffer and is
\* not appended to what the buffer held.
C9_ListItemAlwaysStartsParagraph ==
    [][(pc = "clean" /\ i < Len(lines) /\ MatchesListItem(NextLine)) =>
          buffer' = NextLine]_vars

\* C9 as amended: every input line whose trimmed form matches the list-item
\* pattern begins a new paragraph, unless the buffer ends with a hyphen when
\* the line is read (the hyphenation join comes first): the buffer built so
\* far is closed as a paragraph and the line starts the next one.
C9_ListItemStartsParagraphUnlessHyphen ==
    [][(/\ pc = "clean"
        /\ i < Len(lines)
        /\ MatchesListItem(NextLine)
        /\ ~(buffer # <<>> /\ buffer[Len(buffer)] = "-")) =>
          (/\ buffer' = NextLine
           /\ paragraphs' = IF buffer = <<>> THEN paragraphs
                            ELSE Append(paragraphs, strip(buffer)))]_vars

C9_Witness ==
    /\ pc = "clean"
    /\ i >= 2
    /\ lines[i - 1] = <<"d">>
    /\ lines[i] = <<"-", " ", "d">>
    /\ buffer = <<"-", " ", "d">>
    /\ paragraphs = << <<"d">> >>

(***************************************************************************)
(* Properties of the quality filter.                                       *)
(***************************************************************************)
\* C10: a filter can be created with the flag that switches the line-length
\* check off, and such a filter never rejects a block as a line-length
\* outlier, whatever its baseline holds.
C10_FlagSwitchesLineLengthCheckOff ==
    disable_line_length_filter = "True" =>
        /\ pc # "TypeError"
        /\ verdict.reason # "Line length outlier"

\* the characters of the text that are not whitespace, and how many of them
\* are letters or digits
NonWhitespaceCount(text) == Cardinality({ k \in 1..Len(text) : text[k] \notin Whitespace })
AlphanumericCount(text) ==
    Cardinality({ k \in 1..Len(text) : text[k] \in Upper \cup Lower \cup Digits })

PassesDensity(text) ==
    /\ NonWhitespaceCount(text) > 0
    /\ 2 * AlphanumericCount(text) >= NonWhitespaceCount(text)

\* a step of is_valid that changes the recorded call
IsValidStep == pc = "filter" /\ verdict' # verdict

\* the lengths of the text's non-blank lines: the maximal runs of characters
\* other than newline that hold a non-whitespace character
LineRuns(text) ==
    { <<a, b>> \in (1..Len(text)) \X (1..Len(text)) :
        /\ a <= b
        /\ \A k \in a..b : text[k] # "\n"
        /\ (a = 1 \/ text[a - 1] = "\n")
        /\ (b = Len(text) \/ text[b + 1] = "\n")
        /\ \E k \in a..b : text[k] \notin Whitespace }

\* block mean > baseline mean + 2 * population standard deviation, with the
\* variance taken by its definition, the mean of the squared deviations from
\* the mean: for n samples x of sum S, n * x - S is n times the deviation, so
\* n^3 * variance = D, the sum of (n * x - S)^2
AboveOutlierThreshold(text, samples) ==
    LET runs == LineRuns(text)
        m == Cardinality(runs)
        B == NonWhitespaceCount(text)
               + Cardinality({ k \in 1..Len(text) :
                     text[k] \in Whitespace /\ \E r \in runs : r[1] <= k /\ k <= r[2] })
        n == Len(samples)
        S == SumOf(samples)
        D == SumOf([k \in 1..n |-> (n * samples[k] - S) * (n * samples[k] - S)])
        gap == B * n - S * m
    IN  gap > 0 /\ gap * gap * n > 4 * m * m * D

C13_DensityRejectionBelowHalf ==
    [][IsValidStep =>
          /\ NonWhitespaceCount(verdict'.text) = 0
                => (~verdict'.valid
                    /\ verdict'.reason \in {"Empty text", "Whitespace only"})
          /\ verdict'.reason = "Low alphanumeric density"
                <=> (/\ NonWhitespaceCount(verdict'.text) > 0
                     /\ 2 * AlphanumericCount(verdict'.text)
                           < NonWhitespaceCount(verdict'.text))
          /\ verdict'.reason = "Low alphanumeric density" => ~verdict'.valid]_vars

C13_Witness ==
    /\ pc = "filter"
    /\ Len(line_lengths) > 5
    /\ verdict = [text |-> <<"a", ".", ".">>, valid |-> FALSE,
                  reason |-> "Low alphanumeric density"]

(***************************************************************************)
(* Properties of deduplicate.                                              *)
(***************************************************************************)
\* one of two candidates holds the other, by their normalized texts
OneHoldsOther ==
    /\ Len(candidates) = 2
    /\ \/ Contains(Normalized(candidates[1].text), Normalized(candidates[2].text))
       \/ Contains(Normalized(candidates[2].text), Normalized(candidates[1].text))

\* exactly one block is returned, and its normalized text holds the other's
OnlyTheHolderReturned ==
    \E k \in 1..2 :
       /\ accepted = <<candidates[k]>>
       /\ Contains(Normalized(candidates[k].text), Normalized(candidates[3 - k].text))

\* C14 as claimed: of two candidates of which one's normalized text is a
\* substring of the other's, deduplicate returns exactly one, the one that
\* holds the other, in either input order.
C14_OnlyTheLongerSurvives ==
    (pc = "deduplicated" /\ OneHoldsOther) => OnlyTheHolderReturned

\* C14 as amended: the same when the normalized texts are not both empty;
\* two candidates that both normalize to the empty text yield no block.
C14_OnlyTheLongerSurvivesUnlessBlank ==
    (pc = "deduplicated" /\ OneHoldsOther) =>
        IF \A k \in 1..2 : Normalized(candidates[k].text) = <<>>
        THEN accepted = <<>>
        ELSE OnlyTheHolderReturned

C14_Witness ==
    /\ pc = "deduplicated"
    /\ candidates = << [id |-> 1, text |-> <<"A">>],
                       [id |-> 2, text |-> <<"a", "\n", "B">>] >>
    /\ accepted = << [id |-> 2, text |-> <<"a", "\n", "B">>] >>

(***************************************************************************)
(* Properties of analyze_image and get_text_image_regions.                 *)
(***************************************************************************)
\* the positions of the detected regions of a valid type, and those of them
\* that are in unique_blocks
ValidDetected == { k \in 1..Len(detected) : detected[k].type \in {"Text", "Title", "List"} }
Survives(k) == \E u \in 1..Len(unique_blocks) : unique_blocks[u].id = detected[k].id
Analyzed == pc \in {"analyzed", "cropped"} /\ detected # <<>>

\* intersection over union above 9/10, by the areas
IoUAboveNineTenths(a, b) ==
    LET iou == calculate_iou(detected[a].box, detected[b].box)
    IN  10 * iou.num > 9 * iou.den

\* a region is removed only when a surviving region scored at least as high
\* has IoU > 0.9 with it
RemovedOnlyAsDuplicate ==
    \A b \in ValidDetected :
       ~Survives(b) =>
          \E a \in ValidDetected \ {b} :
             /\ Survives(a)
             /\ IoUAboveNineTenths(a, b)
             /\ detected[a].score >= detected[b].score

\* C15 as claimed: of every two valid-type regions with IoU > 0.9 only the
\* higher-scored survives the deduplication, whatever else is on the page,
\* and no region is removed on account of a region with IoU <= 0.9.
C15_OnlyHigherScoredSurvives ==
    Analyzed =>
        /\ \A a, b \in ValidDetected :
              (IoUAboveNineTenths(a, b) /\ detected[a].score > detected[b].score)
                 => (Survives(a) /\ ~Survives(b))
        /\ RemovedOnlyAsDuplicate

\* C15 as amended: of two valid-type regions with IoU > 0.9 at most one
\* survives, never the lower-scored next to the higher-scored; on a page
\* with no other valid-type region exactly the higher-scored survives; and a
\* region is removed only as the duplicate of a surviving region scored at
\* least as high.
C15_AtMostOneOfTwoDuplicatesSurvives ==
    Analyzed =>
        /\ \A a, b \in ValidDetected :
              (a # b /\ IoUAboveNineTenths(a, b)) =>
                 /\ ~(Survives(a) /\ Survives(b))
                 /\ (ValidDetected = {a, b} /\ detected[a].score > detected[b].score)
                       => (Survives(a) /\ ~Survives(b))
        /\ RemovedOnlyAsDuplicate

C15_Witness ==
    /\ pc = "analyzed"
    /\ Len(detected) = 3
    /\ \E a, b \in ValidDetected :
          /\ IoUAboveNineTenths(a, b)
          /\ detected[a].score > detected[b].score
          /\ ~Survives(a)
          /\ Survives(b)

\* the detected region at position k is in the layout analyze_image returned
Returned(k) == \E t \in 1..Len(text_layout) : text_layout[t].id = detected[k].id

\* a region wholly in the top tenth or wholly in the bottom tenth of the page
InTopTenth(b) == 10 * b.box[4] <= image.h
InBottomTenth(b) == 10 * b.box[2] >= 9 * image.h

\* a main body text region: a valid-type region outside both margins
IsBody(b) ==
    /\ b.type \in {"Text", "Title", "List"}
    /\ ~InTopTenth(b)
    /\ ~InBottomTenth(b)

\* C16: on a page with a main body text region, every valid-type region that
\* lies wholly in the top 10% or wholly in the bottom 10% of the page is left
\* out of the returned layout, and so is every region of another type.
C16_HeadersAndFootersExcluded ==
    (Analyzed /\ \E k \in 1..Len(detected) : IsBody(detected[k])) =>
        \A k \in 1..Len(detected) :
           \/ ~Returned(k)
           \/ /\ detected[k].type \in {"Text", "Title", "List"}
              /\ ~InTopTenth(detected[k])
              /\ ~InBottomTenth(detected[k])

\* the horizontal centre of a region is left of the middle of the page
LeftOfMidpoint(b) == b.box[1] + b.box[3] < image.w
SameBin(a, b) == LeftOfMidpoint(a) <=> LeftOfMidpoint(b)
Top(b) == b.box[2]

\* the tops of the regions of the layout differ within each bin
DistinctTopsInBins ==
    \A a, b \in 1..Len(text_layout) :
       (a # b /\ SameBin(text_layout[a], text_layout[b]))
          => Top(text_layout[a]) # Top(text_layout[b])

SpansMidpoint(b) == 2 * b.box[1] < image.w /\ image.w < 2 * b.box[3]

\* C18: when every region of the layout spans the horizontal middle of the
\* page (a single-column page), the regions are returned top to bottom, by
\* ascending top, as they are when all of them are in one bin.
C18_SingleColumnTopToBottom ==
    (pc = "cropped" /\ \A t \in 1..Len(text_layout) : SpansMidpoint(text_layout[t])) =>
        \A p, q \in 1..Len(sorted_blocks) :
           p < q => Top(sorted_blocks[p]) <= Top(sorted_blocks[q])

(***************************************************************************)
(* Properties of extract_sentences_from_pdf.                               *)
(***************************************************************************)
\* the page of a log entry yielded no text: the extractor returned None or
\* the empty text, or no OCR block of the page was kept
YieldsNoText(entry) ==
    IF mode = "text"
    THEN pdf[entry.page].none \/ pdf[entry.page].text = <<>>
    ELSE entry.kept = 0

HasPageFile(n) == \E f \in 1..Len(page_files) : page_files[f].page = n

\* C19: in every mode a page that yields no text is skipped, not saved: no
\* page file is written for it and it adds no entry to the combined text;
\* and the loop goes on, so that at the end every page from the start page
\* on (up to the dry run's limit) has been taken.
C19_EmptyPagesSkipped ==
    /\ \A e \in 1..Len(page_log) :
          YieldsNoText(page_log[e]) =>
             /\ ~HasPageFile(page_log[e].page)
             /\ page_log[e].message \notin {"Saved", "Saved stitched page"}
    /\ Len(all_pages_text)
          = Cardinality({ e \in 1..Len(page_log) : ~YieldsNoText(page_log[e]) })
    /\ pc = "extracted" =>
          { page_log[e].page : e \in 1..Len(page_log) } = (start_page + 1)..PageLimit

(***************************************************************************)
(* Properties of the audio generation.                                     *)
(***************************************************************************)
\* C20: a failure of the synthesis, of the transcoding or of the
\* concatenation in the run for a page group is fatal: that run of
\* generate_audio.py does not end with exit code 0, process_pdf does not go
\* on to the groups after it, and it does not end with "All done!".
C20_ToolFailureIsFatal ==
    \A f \in failures :
       /\ Len(exit_codes) >= f.group => exit_codes[f.group] # 0
       /\ g_idx < f.group
       /\ pc # "done"

(***************************************************************************)
(* Properties of the start of extract_sentences_from_pdf.                  *)
(***************************************************************************)
OcrRequestedButMissing == mode # "text" /\ ~OCR_AVAILABLE
LayoutRequestedButMissing == auto_layout /\ ~LAYOUT_AVAILABLE
NoEffect ==
    /\ ~output_dir_made
    /\ page_log = <<>>
    /\ page_files = <<>>
    /\ all_pages_text = <<>>
    /\ full_text_file = NotWritten
    /\ page_i = start_page
    /\ line_lengths = <<>>

\* C21: when OCR is requested without OCR support, or layout detection
\* without layout support, extract_sentences_from_pdf exits with status 1
\* after printing a message, and nothing else has happened: no output
\* directory, no page processed, no file written.
C21_MissingDependencyIsFatal ==
    (pc # "split_pdf" /\ (OcrRequestedButMissing \/ LayoutRequestedButMissing))
        => /\ pc = "exited"
           /\ terminated.exited
           /\ terminated.status # 0
           /\ terminated.message # ""
           /\ NoEffect

C21_Witness ==
    /\ pc = "exited"
    /\ ~OcrRequestedButMissing
    /\ LayoutRequestedButMissing
    /\ Len(pdf) > 0

(***************************************************************************)
(* Properties of the header/footer filtering of analyze_image.             *)
(***************************************************************************)
UniqueSet == { unique_blocks[k] : k \in 1..Len(unique_blocks) }
ReturnedSet == { text_layout[k] : k \in 1..Len(text_layout) }
Height(b) == b.box[4] - b.box[2]
\* twice the vertical centre
TwiceCy(b) == b.box[2] + b.box[4]
AnchorSet ==
    { b \in UniqueSet : b.type \in {"Title", "List", "TitleRegion"}
                           \/ 100 * Height(b) > 2 * image.h }
InAnchorSpan(b) ==
    /\ \E a \in AnchorSet : \A z \in AnchorSet : a.box[2] <= z.box[2] /\ 2 * a.box[2] <= TwiceCy(b)
    /\ \E a \in AnchorSet : \A z \in AnchorSet : a.box[4] >= z.box[4] /\ TwiceCy(b) <= 2 * a.box[4]
InFallbackBand(b) == 10 * image.h < 50 * TwiceCy(b) /\ 50 * TwiceCy(b) < 90 * image.h

C22_WitnessNoAnchor ==
    /\ pc = "analyzed"
    /\ AnchorSet = {}
    /\ ReturnedSet # {}
    /\ UniqueSet \ ReturnedSet # {}

(***************************************************************************)
(* Properties of deduplicate on candidate lists of any length.             *)
(***************************************************************************)
Deduplicated == pc = "deduplicated"
NormalizedOf(block) == Normalized(block.text)

\* C23: no block deduplicate returns has a normalized text that is a
\* substring of the normalized text of a different block it returns.
C23_NoReturnedBlockInsideAnother ==
    Deduplicated =>
        \A j, k \in 1..Len(accepted) :
           j # k => ~Contains(NormalizedOf(accepted[k]), NormalizedOf(accepted[j]))

\* C29: the blocks deduplicate returns are in the relative order they have
\* in the candidate list.
C29_ReadingOrderPreserved ==
    Deduplicated =>
        \A j, k \in 1..Len(accepted) :
           j < k => accepted[j].id < accepted[k].id

\* C30: every block returned is an input candidate, the result is no longer
\* than the input, no candidate is returned twice, the normalized text of
\* every candidate that is not blank is a substring of that of some returned
\* block, and no blank candidate is returned.
C30_NoTextLost ==
    Deduplicated =>
        /\ \A k \in 1..Len(accepted) :
              /\ accepted[k].id \in 1..Len(candidates)
              /\ accepted[k] = candidates[accepted[k].id]
              /\ NormalizedOf(accepted[k]) # <<>>
        /\ Len(accepted) <= Len(candidates)
        /\ \A j, k \in 1..Len(accepted) : j # k => accepted[j].id # accepted[k].id
        /\ \A c \in 1..Len(candidates) :
              NormalizedOf(candidates[c]) # <<>> =>
                 \E k \in 1..Len(accepted) :
                    Contains(NormalizedOf(accepted[k]), NormalizedOf(candidates[c]))

C30_Witness ==
    /\ Deduplicated
    /\ Len(candidates) = 3
    /\ \E c \in 1..3 : NormalizedOf(candidates[c]) = <<>>
    /\ \E c \in 1..3 : candidates[c].text = <<"a">>
    /\ Len(accepted) = 1
    /\ accepted[1].text = <<"a", "\n", "B">>

(***************************************************************************)
(* Properties of the quality baseline over a document run.                 *)
(***************************************************************************)
\* the samples after the blocks of a page: each block the filter accepts
\* against the samples so far adds the lengths of its lines
RECURSIVE SamplesAfter(_, _)
SamplesAfter(recorded, blocks) ==
    IF blocks = <<>> THEN recorded
    ELSE SamplesAfter(IF is_valid(recorded, Head(blocks).text).valid
                      THEN recorded \o LineLengthsOf(Head(blocks).text)
                      ELSE recorded,
                      Tail(blocks))

PageTaken == pc = "extract" /\ page_i' = page_i + 1
PageCandidates ==
    [k \in 1..Len(pdf[page_i + 1].blocks) |-> [id |-> k, text |-> pdf[page_i + 1].blocks[k]]]

\* C24: over a document run the recorded samples only grow, and only by
\* add on the blocks of a page that is_valid has just accepted, taken from
\* the page's deduplicated blocks in their order; nothing else (the start,
\* the text path, deduplicate, is_valid, the end of the run) changes them.
C24_BaselineOnlyGrowsByAcceptedBlocks ==
    [][ /\ Len(line_lengths') >= Len(line_lengths)
        /\ SubSeq(line_lengths', 1, Len(line_lengths)) = line_lengths
        /\ IF PageTaken /\ mode # "text"
           THEN line_lengths' = SamplesAfter(line_lengths, deduplicate(PageCandidates))
           ELSE line_lengths' = line_lengths ]_vars

C24_Witness ==
    /\ mode = "ocr"
    /\ Len(line_lengths) >= 2
    /\ \E e \in 1..Len(page_log) :
          /\ page_log[e].kept = 0
          /\ Len(pdf[page_log[e].page].blocks) = 2
    /\ \E e \in 1..Len(page_log) :
          /\ page_log[e].kept = 1
          /\ Len(pdf[page_log[e].page].blocks) = 2

(***************************************************************************)
(* The paragraph-boundary decision of clean_text as a function of the ends *)
(* of the buffer and of the line.                                          *)
(***************************************************************************)
\* the buffers and trimmed lines of the second run that is compared
ComparedBuffers == { b \in PrevLines : strip(b) = b } \cup { <<"d", ".", " ", "d">>, <<"-">> }
ComparedLines ==
    { strip(l) : l \in CleanLines }
       \cup { <<"d", " ", "d">>,
              <<"A", "N", "D", " ", "d", " ", "d">>,
              <<"A", "N", "D", " ", "1">>,
              <<"A", "n", "d", " ", "A", "N", "D">>,
              <<"1", ".", " ", "A", "n", "d">>,
              <<"-", " ", "-">> }

\* what the claim lets the decision depend on: whether the buffer is empty,
\* its last character, the line's first token and whether the line begins
\* with a list marker
LastCharacter(b) == IF b = <<>> THEN "" ELSE b[Len(b)]
EndsOf(b, l) == <<b = <<>>, LastCharacter(b), FirstToken(l), MatchesListItem(l)>>

\* the compared runs: the ends of each, whether its line is a heading, and
\* its decision
ComparedRuns ==
    { [ends |-> EndsOf(b, l), heading |-> IsAllCapsHeading(l),
       starts |-> StartsParagraph(b, l)] : b \in ComparedBuffers, l \in ComparedLines }

\* the step of clean_text on the next line made that line the start of a
\* paragraph
LineStartedParagraph ==
    /\ NextLine # <<>>
    /\ buffer' = NextLine
    /\ \/ buffer = <<>> /\ paragraphs' = paragraphs
       \/ buffer # <<>> /\ paragraphs' = Append(paragraphs, strip(buffer))
LineTaken == pc = "clean" /\ i < Len(lines) /\ i' = i + 1

\* C25 as claimed: the decision for a line is the decision of every other
\* run whose buffer agrees in emptiness and last character and whose line
\* agrees in first token and list marker.
C25_DecisionDependsOnEndsOnly ==
    [][LineTaken =>
          LET ends == EndsOf(buffer, NextLine)
              started == LineStartedParagraph
          IN  \A r \in ComparedRuns : r.ends = ends => (r.starts <=> started)]_vars

\* C25 as amended: the same for every other run whose line agrees, besides,
\* in being or not being an all-caps heading of two or more tokens (a
\* property of the whole trimmed line).
C25_DecisionDependsOnEndsAndHeading ==
    [][LineTaken =>
          LET ends == EndsOf(buffer, NextLine)
              heading == IsAllCapsHeading(NextLine)
              started == LineStartedParagraph
          IN  \A r \in ComparedRuns :
                 (r.ends = ends /\ r.heading = heading) => (r.starts <=> started)]_vars

\* a buffer of two lines met a line for which a run with another buffer and
\* another line, alike at the ends, is compared
C25_Witness ==
    /\ pc = "clean"
    /\ i = 3
    /\ lines[1] = <<"d", ".">>
    /\ lines[2] = <<"A", "n", "d", " ", "d">>
    /\ lines[3] = <<"A", "N", "D", " ", "d">>
    /\ buffer = <<"d", ".", " ", "A", "n", "d", " ", "d", " ", "A", "N", "D", " ", "d">>
    /\ \E b \in ComparedBuffers, l \in ComparedLines :
          /\ EndsOf(b, l) = EndsOf(<<"d", ".", " ", "A", "n", "d", " ", "d">>, strip(lines[3]))
          /\ b # <<"d", ".", " ", "A", "n", "d", " ", "d">>
          /\ l # strip(lines[3])
          /\ ~IsAllCapsHeading(l)

(***************************************************************************)
(* Properties of the paragraphs clean_text emits.                          *)
(***************************************************************************)
IsBlankLine(line) == \A k \in 1..Len(line) : line[k] \in Whitespace
NonBlankAmong(n) == Cardinality({ k \in 1..n : ~IsBlankLine(lines[k]) })
Trimmed(p) == p # <<>> /\ p[1] \notin Whitespace /\ p[Len(p)] \notin Whitespace

\* C26: clean_text emits only non-empty paragraphs without leading or
\* trailing whitespace; the paragraphs, with the one still in the buffer, are
\* never more than the non-blank lines read; a blank line that follows a
\* blank line adds no paragraph, and a blank line adds at most one; the
\* return flushes what the buffer holds as the last paragraph.
C26_ParagraphsNonEmptyAndTrimmed ==
    /\ [](pc \in {"clean", "returned"} =>
            /\ \A k \in 1..Len(paragraphs) : Trimmed(paragraphs[k])
            /\ Len(paragraphs) + (IF pc = "clean" /\ buffer # <<>> THEN 1 ELSE 0)
                  <= NonBlankAmong(i))
    /\ [][(LineTaken /\ IsBlankLine(lines[i + 1])) =>
            /\ Len(paragraphs') <= Len(paragraphs) + 1
            /\ buffer' = <<>>
            /\ (i >= 1 /\ IsBlankLine(lines[i])) => paragraphs' = paragraphs]_vars
    /\ [][(pc = "clean" /\ pc' = "returned") =>
            IF buffer = <<>> THEN paragraphs' = paragraphs
            ELSE /\ Len(paragraphs') = Len(paragraphs) + 1
                 /\ SubSeq(paragraphs', 1, Len(paragraphs)) = paragraphs
                 /\ paragraphs'[Len(paragraphs')] = buffer]_vars

C26_Witness ==
    /\ pc = "returned"
    /\ lines = << <<" ">>, <<>>, <<" ", "d", " ">> >>
    /\ buffer = <<"d">>
    /\ paragraphs = << <<"d">> >>

(***************************************************************************)
(* Properties of the OCR dry run.                                          *)
(***************************************************************************)
\* the pages (1-based) the dry run is to take: those with 0-based index
\* start_page, ..., min(start_page + 5, page count) - 1
DryRunWindow ==
    { n \in 1..Len(pdf) : start_page <= n - 1 /\ n - 1 < start_page + 5 }

\* C27: the OCR dry run takes the pages of its window in ascending order,
\* each once, no page before the start page and none at or after the limit,
\* and it has taken exactly the window when it returns.
C27_DryRunTakesFivePagesFromStart ==
    mode = "dry_run" =>
        /\ \A e \in 1..Len(page_log) :
              /\ page_log[e].page = start_page + e
              /\ page_log[e].page \in DryRunWindow
        /\ \A f \in 1..Len(page_files) : page_files[f].page \in DryRunWindow
        /\ pc = "extracted" =>
              { page_log[e].page : e \in 1..Len(page_log) } = DryRunWindow

C27_Witness ==
    /\ pc = "extracted"
    /\ mode = "dry_run"
    /\ start_page = 1
    /\ Len(pdf) = 7
    /\ Len(page_log) = 5
    /\ page_log[5].page = 6

(***************************************************************************)
(* Properties of a full run of process_pdf.                                *)
(***************************************************************************)
PageFilesWritten == { PageFileName(page_files[k].page) : k \in 1..Len(page_files) }
GroupedFiles == Flatten(groups)

\* C28: in a full run every file in a page group is a page file that the
\* split step wrote for a page of the PDF, no file is in two places of the
\* groups, --skip drops page files only and every output name is built from
\* page numbers of the PDF.
C28_OnlyPageFilesAreGrouped ==
    pc = "grouped" =>
        /\ \A k \in 1..Len(GroupedFiles) : GroupedFiles[k] \in PageFilesWritten
        /\ \A j, k \in 1..Len(GroupedFiles) : j # k => GroupedFiles[j] # GroupedFiles[k]
        /\ Len(GroupedFiles) = Max(0, Len(page_files) - skip)
        /\ \A g \in 1..Len(groups) :
              /\ page_num(groups[g][1]) \in 1..Len(pdf)
              /\ page_num(groups[g][Len(groups[g])]) \in 1..Len(pdf)

=============================================================================
